---------------------------- MODULE Spec2Model ----------------------------
(***************************************************************************)
(* A model of the scene editor of src/App.tsx: the App component (scene    *)
(* upload, character list, image generation), the ControlPanel component,  *)
(* the SceneViewer component (entity registry, selection, gizmo drags,     *)
(* camera orbit, pointer lock), and the image service of                   *)
(* src/services/geminiService.ts.                                          *)
(*                                                                         *)
(* Numbers.  Lengths, positions and scale factors are fixed-point numbers  *)
(* counted in quarters (1.0 is written 4), angles are whole degrees, and   *)
(* unit direction vectors are counted in thousandths (1.0 is written       *)
(* 1000).  Sines and cosines come from a table of thousandths for whole   *)
(* degrees, exact at the multiples of 90 degrees that the modelled edits   *)
(* and drags give to entities.                                             *)
(*                                                                         *)
(* React.  A state setter, the render it causes and the effects whose      *)
(* dependencies changed are one step: each action below is an event        *)
(* handler or an asynchronous completion together with the effects it      *)
(* triggers.  The refs that mirror state (selectedTargetRef, ...) are read *)
(* as the state they mirror.  SceneViewer is rendered only while isLoading *)
(* is false (src/App.tsx:178), so it is unmounted when isLoading becomes   *)
(* true and a fresh instance is mounted when it becomes false again.       *)
(***************************************************************************)
EXTENDS Integers, Sequences, FiniteSets, TLC

VARIABLES
    splatUrl,         \* App: useState splatUrl; 0 is null, n > 0 the URL of upload n
    isLoading,        \* App: useState isLoading
    characters,       \* App: useState characters, a sequence of [id, type]
    generationState,  \* App: useState generationState
    viewMode,         \* App: useState viewMode
    captureRef,       \* App: useRef captureRef; TRUE when it holds the viewer's canvas
    pendingGen,       \* the calls of generateCharacterInScene that handleGenerate awaits
    nextGen,          \* the number the next call of generateCharacterInScene gets
    pendingUnzip,     \* uploads of .spz files whose handleUploadSplat awaits the unzip
    nextUpload,       \* the number the next scene upload gets (its object URL)
    nextCharId,       \* the id the next uploaded character gets
    nextLoad,         \* the number the next character asset load gets
    sv,               \* the mounted SceneViewer instance: its state and refs
    dragEnt,          \* history: the entity that was the target when the drag began
    budget,           \* history: edits, presses, pointer moves, wheel notches, key moves so far
    shown,            \* history: the uploads whose scene entity has been created
    saved,            \* history: the editing state when the latest scene upload began
    lastCall,         \* history: the inputs and the result of the latest settled image request
    pressed,          \* history: what lay under the pointer at the press that holds the button
    lastOp            \* history: the handler that ran last

vars == <<splatUrl, isLoading, characters, generationState, viewMode, captureRef, pendingGen, nextGen, pendingUnzip, nextUpload, nextCharId, nextLoad, sv, dragEnt, budget, shown, saved, lastCall, pressed, lastOp>>

appVars == <<splatUrl, isLoading, characters, generationState, viewMode, captureRef, pendingGen, nextGen, pendingUnzip, nextUpload, nextCharId, nextLoad>>

---------------------------------------------------------------------------
(* Bounds of the model *)

MaxUploads == 3

MaxChars == 2

MaxCharLoads == 3

MaxInputs == 3

CharIds == 1 .. MaxChars

---------------------------------------------------------------------------
(* Entities of the renderer *)

NoEnt == [k |-> "none", id |-> 0, n |-> 0]

SceneEnt(u) == [k |-> "scene", id |-> u, n |-> 0]

CharEnt(id, n) == [k |-> "character", id |-> id, n |-> n]

Vec3(x, y, z) == <<x, y, z>>

Zero3 == Vec3(0, 0, 0)

One3 == Vec3(4, 4, 4)

NoGizmo == [mode |-> "none", pos |-> Zero3, rot |-> Zero3]

(* app.scene.skybox before any texture was assigned, and an empty
   currentSkyboxAssetRef *)
NoSkybox == [name |-> "none", url |-> 0]

Ids(chars) == {chars[i].id : i \in 1 .. Len(chars)}

Live(s) == DOMAIN s.xf

LiveScenes(s) == {h \in Live(s) : h.k = "scene"}

LiveOf(s, id) == {h \in Live(s) : h.k = "character" /\ h.id = id}

Without(f, hs) == [h \in (DOMAIN f) \ hs |-> f[h]]

With(f, h, v) == [g \in (DOMAIN f) \cup {h} |-> IF g = h THEN v ELSE f[g]]

---------------------------------------------------------------------------
(* Fixed-point arithmetic and the engine's vector and angle functions *)

RDiv(a, b) == (2 * a + b) \div (2 * b)

Abs(a) == IF a < 0 THEN -a ELSE a

Clamp(v, lo, hi) == IF v < lo THEN lo ELSE IF v > hi THEN hi ELSE v

Norm180(a) == LET m == a % 360 IN IF m > 180 THEN m - 360 ELSE m

Norm720(a) == LET m == a % 720 IN IF m > 360 THEN m - 720 ELSE m

SinTab == <<0, 17, 35, 52, 70, 87, 105, 122, 139, 156, 174, 191, 208,
    225, 242, 259, 276, 292, 309, 326, 342, 358, 375, 391, 407, 423,
    438, 454, 469, 485, 500, 515, 530, 545, 559, 574, 588, 602, 616,
    629, 643, 656, 669, 682, 695, 707, 719, 731, 743, 755, 766, 777,
    788, 799, 809, 819, 829, 839, 848, 857, 866, 875, 883, 891, 899,
    906, 914, 921, 927, 934, 940, 946, 951, 956, 961, 966, 970, 974,
    978, 982, 985, 988, 990, 993, 995, 996, 998, 999, 999, 1000, 1000>>

SinDeg(a) == LET m == a % 360 IN
    IF m <= 90 THEN SinTab[m + 1]
    ELSE IF m <= 180 THEN SinTab[180 - m + 1]
    ELSE IF m <= 270 THEN -SinTab[m - 180 + 1]
    ELSE -SinTab[360 - m + 1]

CosDeg(a) == SinDeg(a + 90)

VAdd(a, b) == <<a[1] + b[1], a[2] + b[2], a[3] + b[3]>>

VSub(a, b) == <<a[1] - b[1], a[2] - b[2], a[3] - b[3]>>

Dot(a, b) == a[1] * b[1] + a[2] * b[2] + a[3] * b[3]

ISqrt(n) == CHOOSE r \in 0 .. 2000 : r * r <= n /\ n < (r + 1) * (r + 1)

Length(v) == ISqrt(Dot(v, v))

RotX(a, v) == <<v[1], RDiv(v[2] * CosDeg(a) - v[3] * SinDeg(a), 1000), RDiv(v[2] * SinDeg(a) + v[3] * CosDeg(a), 1000)>>

RotY(a, v) == <<RDiv(v[1] * CosDeg(a) + v[3] * SinDeg(a), 1000), v[2], RDiv(v[3] * CosDeg(a) - v[1] * SinDeg(a), 1000)>>

RotZ(a, v) == <<RDiv(v[1] * CosDeg(a) - v[2] * SinDeg(a), 1000), RDiv(v[1] * SinDeg(a) + v[2] * CosDeg(a), 1000), v[3]>>

(* Quat.transformVector for the rotation with Euler angles e: X first, then Y, then Z *)
TransformVector(e, v) == RotZ(e[3], RotY(e[2], RotX(e[1], v)))

(* Math.atan2(x, z) in whole degrees, rounded towards the z axis *)
AtanQuadrant(x, z) == Cardinality({a \in 1 .. 90 : x * CosDeg(a) - z * SinDeg(a) >= 0})

Atan2Deg(x, z) ==
    IF x = 0 /\ z = 0 THEN 0
    ELSE IF x >= 0 /\ z >= 0 THEN AtanQuadrant(x, z)
    ELSE IF x >= 0 THEN 180 - AtanQuadrant(x, -z)
    ELSE IF z >= 0 THEN -AtanQuadrant(-x, z)
    ELSE AtanQuadrant(-x, -z) - 180

(* Math.asin(y / length) in whole degrees, from y and the squared length *)
AsinDeg(y, lenSq) ==
    LET n == Cardinality({a \in 1 .. 90 : ((SinTab[a + 1] * SinTab[a + 1]) \div 100) * lenSq <= 10000 * y * y})
    IN  IF lenSq = 0 THEN 0 ELSE IF y < 0 THEN -n ELSE n

AxisIx(axis) == CASE axis = "x" -> 1 [] axis = "y" -> 2 [] axis = "z" -> 3

SetAxis(v, i, value) == [v EXCEPT ![i] = value]

UnitAxis(i) == [Zero3 EXCEPT ![i] = 1000]

(* setLocalEulerAngles followed by getLocalEulerAngles: the engine keeps a
   quaternion and reads the angles back from it, with yaw in [-90, 90] *)
EulerReadBack(e) == LET x == Norm180(e[1])
                        y == Norm180(e[2])
                        z == Norm180(e[3])
                        turns == (e[2] - y) \div 360
                    IN  IF y = 90 THEN <<Norm720(e[1] - e[3] + 360 * turns), 90, 0>>
                        ELSE IF y = -90 THEN <<Norm720(e[1] + e[3] + 360 * turns), -90, 0>>
                        ELSE IF Abs(y) > 90 THEN <<Norm180(x + 180), Norm180(180 - y), Norm180(z + 180)>>
                        ELSE <<x, y, z>>

Xf(p, r, s, bb) == [pos |-> p, rot |-> EulerReadBack(r), scl |-> s, bb |-> bb]

(* The entity the splat loader's ready callback creates *)
SplatRootXf == Xf(Zero3, Vec3(0, 0, 180), One3, FALSE)

(* The entity a character's ready callback creates: a 3D model at the origin,
   a 2D billboard root one unit up *)
CharacterXf(type) == IF type = "3d" THEN Xf(Zero3, Zero3, One3, FALSE) ELSE Xf(Vec3(0, 4, 0), Zero3, One3, TRUE)

CameraStart == Vec3(0, 6, 16)

CameraSceneStart == Vec3(0, 4, 16)

---------------------------------------------------------------------------
(* The SceneViewer instance *)

ViewerInit ==
    [ sceneLoads |-> {}, splatEntity |-> NoEnt,
      map |-> [i \in CharIds |-> NoEnt], charLoads |-> {},
      xf |-> [h \in {} |-> 0],
      selectedTarget |-> "scene", activeCharacterId |-> 0,
      isEditMode |-> FALSE, isLocked |-> FALSE, lockPending |-> FALSE,
      gizmoMode |-> "translate", gizmoRoot |-> NoGizmo, gizmos |-> 0,
      skyboxId |-> "helipad", customSkyboxUrl |-> 0, skyLoads |-> {}, skyLoadCount |-> 0,
      skybox |-> NoSkybox, currentSkyboxAsset |-> NoSkybox, skyFailed |-> FALSE,
      transforms |-> [position |-> Zero3, rotation |-> Zero3, scale |-> One3],
      draggedAxis |-> "none", dragStartPoint |-> Zero3, dragStartValue |-> Zero3,
      dragPlane |-> [point |-> Zero3, normal |-> Zero3],
      isOrbiting |-> FALSE, isFreeLooking |-> FALSE,
      orbitParams |-> [alpha |-> 0, beta |-> 0, radius |-> 20, targetPivot |-> Zero3],
      mouseLookEuler |-> Zero3,
      camPos |-> CameraStart, camEuler |-> Zero3 ]

Mounted == ~isLoading

(* No button is held *)
NoPress == [hitAxis |-> "none", hitChar |-> 0]

(* generationState.generatedImage = null *)
NoImage == [mimeType |-> "none", data |-> 0]

(* What the user has edited: the character list, the selection, the edit
   mode, the environment map and the local transform of every registered
   character *)
Editing(s, chars) ==
    [ characters |-> chars,
      selection |-> <<s.selectedTarget, s.activeCharacterId>>,
      isEditMode |-> s.isEditMode,
      environment |-> <<s.skyboxId, s.customSkyboxUrl>>,
      transforms |-> [id \in CharIds |-> {s.xf[h] : h \in {s.map[id]} \cap DOMAIN s.xf}] ]

(* getTargetEntity *)
TargetOf(s) ==
    IF s.selectedTarget = "scene" THEN s.splatEntity
    ELSE IF s.selectedTarget = "character" /\ s.activeCharacterId # 0 THEN s.map[s.activeCharacterId]
    ELSE NoEnt

(* A rebuild that adds the new gizmo without destroying the one before it *)
RebuildGizmoLeaking(s) ==
    IF ~s.isEditMode \/ s.selectedTarget = "none" THEN [s EXCEPT !.gizmoRoot = NoGizmo]
    ELSE LET t == TargetOf(s) IN
         [s EXCEPT !.gizmoRoot = [mode |-> s.gizmoMode,
                                  pos |-> IF t = NoEnt THEN Zero3 ELSE s.xf[t].pos,
                                  rot |-> IF t = NoEnt THEN Zero3 ELSE s.xf[t].rot],
                   !.gizmos = s.gizmos + 1]

(* rebuildGizmo: the gizmo the ref holds is destroyed, then a new one is
   added to the application root when edit mode is on and something is
   selected; gizmos counts the GizmoRoot entities under the root *)
RebuildGizmo(s) ==
    LET kept == IF s.gizmoRoot.mode # "none" THEN s.gizmos - 1 ELSE s.gizmos IN
    IF ~s.isEditMode \/ s.selectedTarget = "none" THEN [s EXCEPT !.gizmoRoot = NoGizmo, !.gizmos = kept]
    ELSE LET t == TargetOf(s) IN
         [s EXCEPT !.gizmoRoot = [mode |-> s.gizmoMode,
                                  pos |-> IF t = NoEnt THEN Zero3 ELSE s.xf[t].pos,
                                  rot |-> IF t = NoEnt THEN Zero3 ELSE s.xf[t].rot],
                   !.gizmos = kept + 1]

(* The gizmo follows the entity e *)
GizmoAt(s, e) == IF s.gizmoRoot.mode = "none" THEN s.gizmoRoot ELSE [s.gizmoRoot EXCEPT !.pos = s.xf[e].pos, !.rot = s.xf[e].rot]

(* updateLocalStateFromEntity and the effect that calls it *)
SyncTransforms(s) ==
    LET t == TargetOf(s) IN
    IF ~s.isEditMode \/ t = NoEnt THEN s
    ELSE [s EXCEPT !.transforms = [position |-> s.xf[t].pos, rotation |-> s.xf[t].rot, scale |-> s.xf[t].scl],
                   !.gizmoRoot = GizmoAt(s, t)]

SelectionDeps(s) == <<s.isEditMode, s.selectedTarget, s.activeCharacterId>>

(* The effects React runs after a render: old is the state before the handler,
   new the state after it, bumped whether sceneLoadVersion was incremented *)
Effects(old, new, bumped) ==
    LET g == IF bumped \/ SelectionDeps(old) # SelectionDeps(new) \/ old.gizmoMode # new.gizmoMode THEN RebuildGizmo(new) ELSE new
    IN  IF bumped \/ SelectionDeps(old) # SelectionDeps(new) THEN SyncTransforms(g) ELSE g

---------------------------------------------------------------------------
(* The loaders of SceneViewer *)

Op(name, arg) == name

(* The splat loader effect, run when splatUrl became u *)
SplatEffect(s, u) ==
    IF u = 0 THEN s
    ELSE [s EXCEPT !.xf = Without(s.xf, {s.splatEntity}), !.splatEntity = NoEnt, !.sceneLoads = s.sceneLoads \cup {u}]

(* The ready callback of the splat asset of upload u *)
SplatReady(s, u) ==
    LET e == SceneEnt(u)
        s1 == [s EXCEPT !.sceneLoads = @ \ {u}, !.xf = With(s.xf, e, SplatRootXf), !.splatEntity = e]
    IN  IF ~s.isEditMode THEN [s1 EXCEPT !.camPos = CameraSceneStart, !.camEuler = Zero3, !.mouseLookEuler = Zero3] ELSE s1

(* A remove step that clears the active id and leaves the target kind *)
RemoveStepIdOnly(s, chars) ==
    LET gone == {id \in CharIds : s.map[id] # NoEnt /\ id \notin Ids(chars)}
        sel == s.activeCharacterId \in gone
    IN  [s EXCEPT !.xf = Without(s.xf, {s.map[id] : id \in gone}),
                  !.map = [id \in CharIds |-> IF id \in gone THEN NoEnt ELSE s.map[id]],
                  !.activeCharacterId = IF sel THEN 0 ELSE @]

(* Character manager effect, step 1: remove deleted characters *)
RemoveStep(s, chars) ==
    LET gone == {id \in CharIds : s.map[id] # NoEnt /\ id \notin Ids(chars)}
        sel == s.activeCharacterId \in gone
    IN  [s EXCEPT !.xf = Without(s.xf, {s.map[id] : id \in gone}),
                  !.map = [id \in CharIds |-> IF id \in gone THEN NoEnt ELSE s.map[id]],
                  !.activeCharacterId = IF sel THEN 0 ELSE @,
                  !.selectedTarget = IF sel /\ @ = "character" THEN "none" ELSE @]

NeedLoad(s, chars) == {i \in 1 .. Len(chars) : s.map[chars[i].id] = NoEnt}

(* Character manager effect, step 2: load every character that has no entity *)
AddStep(s, chars, n0) ==
    LET need == NeedLoad(s, chars) IN
    [s EXCEPT !.charLoads = @ \cup {[id |-> chars[i].id, type |-> chars[i].type, n |-> n0 + Cardinality({j \in need : j < i})] : i \in need}]

CharEffect(s, chars, n0) == Effects(s, AddStep(RemoveStep(s, chars), chars, n0), FALSE)

(* A ready callback that rebuilds the registry with its own entity only *)
CharacterReadyAlone(s, l) ==
    LET e == CharEnt(l.id, l.n) IN
    [s EXCEPT !.charLoads = @ \ {l}, !.xf = With(s.xf, e, CharacterXf(l.type)),
              !.map = [id \in CharIds |-> IF id = l.id THEN e ELSE NoEnt],
              !.activeCharacterId = l.id, !.selectedTarget = "character"]

(* The ready callback of a character asset *)
CharacterReady(s, l) ==
    LET e == CharEnt(l.id, l.n) IN
    [s EXCEPT !.charLoads = @ \ {l}, !.xf = With(s.xf, e, CharacterXf(l.type)),
              !.map = [@ EXCEPT ![l.id] = e],
              !.activeCharacterId = l.id, !.selectedTarget = "character"]

(* A fresh SceneViewer mounted with the props splatUrl = u and characters = chars *)
Mount(u, chars, n0) == CharEffect(SplatEffect(ViewerInit, u), chars, n0)

(* App re-renders with splatUrl = u and isLoading = false *)
ShowViewer(u) ==
    /\ isLoading' = FALSE
    /\ splatUrl' = u
    /\ IF isLoading
       THEN /\ nextLoad + Len(characters) <= MaxCharLoads + 1
            /\ sv' = Mount(u, characters, nextLoad)
            /\ nextLoad' = nextLoad + Len(characters)
            /\ dragEnt' = NoEnt
            /\ captureRef' = TRUE
       ELSE /\ sv' = SplatEffect(sv, u)
            /\ UNCHANGED <<nextLoad, dragEnt, captureRef>>

---------------------------------------------------------------------------
(* App: handleUploadSplat, handleUploadCharacter, handleRemoveCharacter *)

Init ==
    /\ splatUrl = 0
    /\ isLoading = FALSE
    /\ characters = <<>>
    /\ generationState = [isGenerating |-> FALSE, generatedImage |-> NoImage, error |-> "none"]
    /\ viewMode = "VIEWPORT"
    /\ captureRef = TRUE
    /\ pendingGen = {}
    /\ nextGen = 1
    /\ pendingUnzip = {}
    /\ nextUpload = 1
    /\ nextCharId = 1
    /\ nextLoad = 1
    /\ sv = ViewerInit
    /\ dragEnt = NoEnt
    /\ budget = 0
    /\ shown = {}
    /\ saved = Editing(ViewerInit, <<>>)
    /\ lastCall = [apiKey |-> TRUE, failure |-> "none", response |-> <<>>, result |-> [ok |-> FALSE, value |-> NoImage, message |-> "none"]]
    /\ pressed = NoPress
    /\ lastOp = Op("init", 0)

(* handleUploadSplat with a .splat, .ksplat or .ply file: no await, so the
   handler runs to its finally block in one step *)
UploadSplatPlain ==
    /\ nextUpload <= MaxUploads
    /\ nextUpload' = nextUpload + 1
    /\ generationState' = [generationState EXCEPT !.generatedImage = NoImage, !.error = "none"]
    /\ viewMode' = "VIEWPORT"
    /\ ShowViewer(nextUpload)
    /\ saved' = Editing(sv, characters)
    /\ lastOp' = Op("UploadSplatPlain", nextUpload)
    /\ UNCHANGED <<pendingGen, nextGen, characters, pendingUnzip, nextCharId, budget, shown, lastCall, pressed>>

(* handleUploadSplat with an .spz file, up to its first await *)
UploadSplatSpz ==
    /\ nextUpload <= MaxUploads
    /\ nextUpload' = nextUpload + 1
    /\ isLoading' = TRUE
    /\ generationState' = [generationState EXCEPT !.generatedImage = NoImage, !.error = "none"]
    /\ viewMode' = "VIEWPORT"
    /\ pendingUnzip' = pendingUnzip \cup {nextUpload}
    /\ sv' = ViewerInit
    /\ dragEnt' = NoEnt
    /\ saved' = Editing(sv, characters)
    /\ lastOp' = Op("UploadSplatSpz", nextUpload)
    /\ UNCHANGED <<captureRef, pendingGen, nextGen, splatUrl, characters, nextCharId, nextLoad, budget, shown, lastCall, pressed>>

(* handleUploadSplat after the unzip resolved with an inner scene file *)
UnzipDone(u) ==
    /\ u \in pendingUnzip
    /\ pendingUnzip' = pendingUnzip \ {u}
    /\ ShowViewer(u)
    /\ lastOp' = Op("UnzipDone", u)
    /\ UNCHANGED <<pendingGen, nextGen, characters, generationState, viewMode, nextUpload, nextCharId, budget, shown, saved, lastCall, pressed>>

(* What the unzip of an .spz file rejects with: the fflate error, or no
   .splat, .ksplat or .ply entry in the archive *)
UnzipErrors == {"invalid zip data", "No valid .splat or .ply file found inside SPZ archive"}

(* A catch block that leaves splatUrl as it is *)
UrlKeptOnFailure(url) == url

(* setSplatUrl(null) of the catch block *)
UrlOnFailure(url) == 0

(* handleUploadSplat after the unzip rejected: the catch and finally blocks *)
UnzipFail(u) ==
    /\ u \in pendingUnzip
    /\ pendingUnzip' = pendingUnzip \ {u}
    /\ \E message \in UnzipErrors :
           generationState' = [generationState EXCEPT !.error = "Failed to load file: " \o message]
    /\ ShowViewer(UrlOnFailure(splatUrl))
    /\ lastOp' = Op("UnzipFail", u)
    /\ UNCHANGED <<pendingGen, nextGen, characters, viewMode, nextUpload, nextCharId, budget, shown, saved, lastCall, pressed>>

(* handleUploadCharacter (for an image, its FileReader's onloadend) *)
UploadCharacter(type) ==
    /\ nextCharId <= MaxChars
    /\ nextCharId' = nextCharId + 1
    /\ characters' = Append(characters, [id |-> nextCharId, type |-> type])
    /\ viewMode' = "VIEWPORT"
    /\ IF Mounted
       THEN /\ nextLoad + Cardinality(NeedLoad(sv, characters')) <= MaxCharLoads + 1
            /\ sv' = CharEffect(sv, characters', nextLoad)
            /\ nextLoad' = nextLoad + Cardinality(NeedLoad(sv, characters'))
       ELSE UNCHANGED <<sv, nextLoad>>
    /\ lastOp' = Op("UploadCharacter", nextCharId)
    /\ UNCHANGED <<captureRef, pendingGen, nextGen, splatUrl, isLoading, generationState, pendingUnzip, nextUpload, dragEnt, budget, shown, saved, lastCall, pressed>>

(* handleRemoveCharacter *)
RemoveCharacter(id) ==
    /\ id \in Ids(characters)
    /\ characters' = SelectSeq(characters, LAMBDA c : c.id # id)
    /\ IF Mounted
       THEN /\ nextLoad + Cardinality(NeedLoad(RemoveStep(sv, characters'), characters')) <= MaxCharLoads + 1
            /\ sv' = CharEffect(sv, characters', nextLoad)
            /\ nextLoad' = nextLoad + Cardinality(NeedLoad(RemoveStep(sv, characters'), characters'))
       ELSE UNCHANGED <<sv, nextLoad>>
    /\ lastOp' = Op("RemoveCharacter", id)
    /\ UNCHANGED <<captureRef, pendingGen, nextGen, splatUrl, isLoading, generationState, viewMode, pendingUnzip, nextUpload, nextCharId, dragEnt, budget, shown, saved, lastCall, pressed>>

---------------------------------------------------------------------------
(* SceneViewer: asset callbacks and the editor panel *)

SceneReady(u) ==
    /\ Mounted
    /\ u \in sv.sceneLoads
    /\ sv' = Effects(sv, SplatReady(sv, u), TRUE)
    /\ shown' = shown \cup {u}
    /\ lastOp' = Op("SceneReady", u)
    /\ UNCHANGED <<appVars, dragEnt, budget, saved, lastCall, pressed>>

(* The asset's error event: logged, no entity *)
SceneLoadError(u) ==
    /\ Mounted
    /\ u \in sv.sceneLoads
    /\ sv' = [sv EXCEPT !.sceneLoads = @ \ {u}]
    /\ lastOp' = Op("SceneLoadError", u)
    /\ UNCHANGED <<appVars, dragEnt, budget, shown, saved, lastCall, pressed>>

CharReady(l) ==
    /\ Mounted
    /\ l \in sv.charLoads
    /\ sv' = Effects(sv, CharacterReady(sv, l), TRUE)
    /\ lastOp' = Op("CharReady", l.id)
    /\ UNCHANGED <<appVars, dragEnt, budget, shown, saved, lastCall, pressed>>

CharLoadError(l) ==
    /\ Mounted
    /\ l \in sv.charLoads
    /\ sv' = [sv EXCEPT !.charLoads = @ \ {l}]
    /\ lastOp' = Op("CharLoadError", l.id)
    /\ UNCHANGED <<appVars, dragEnt, budget, shown, saved, lastCall, pressed>>

(* setIsEditMode(true), the "Edit Scene & Model" button of the overlay *)
EnterEditMode ==
    /\ Mounted /\ ~sv.isLocked /\ ~sv.isEditMode
    /\ sv' = Effects(sv, [sv EXCEPT !.isEditMode = TRUE], FALSE)
    /\ lastOp' = Op("EnterEditMode", 0)
    /\ UNCHANGED <<appVars, dragEnt, budget, shown, saved, lastCall, pressed>>

(* setIsEditMode(false), the close button of the editor panel *)
LeaveEditMode ==
    /\ Mounted /\ sv.isEditMode
    /\ sv' = Effects(sv, [sv EXCEPT !.isEditMode = FALSE], FALSE)
    /\ lastOp' = Op("LeaveEditMode", 0)
    /\ UNCHANGED <<appVars, dragEnt, budget, shown, saved, lastCall, pressed>>

(* The "Click to Navigate" card of the overlay: canvas.requestPointerLock(),
   which the browser answers later *)
requestPointerLock ==
    /\ Mounted /\ ~sv.isLocked /\ ~sv.isEditMode /\ ~sv.lockPending
    /\ sv' = [sv EXCEPT !.lockPending = TRUE]
    /\ lastOp' = Op("requestPointerLock", 0)
    /\ UNCHANGED <<appVars, dragEnt, budget, shown, saved, lastCall, pressed>>

(* The browser refuses the request: the promise rejects and is caught *)
lockRequestRejected ==
    /\ Mounted /\ sv.lockPending
    /\ sv' = [sv EXCEPT !.lockPending = FALSE]
    /\ lastOp' = Op("lockRequestRejected", 0)
    /\ UNCHANGED <<appVars, dragEnt, budget, shown, saved, lastCall, pressed>>

(* handleLockChange, the pointerlockchange listener: the lock was granted to
   the canvas (locked), or the user left it with Escape *)
handleLockChange(locked) ==
    /\ Mounted
    /\ IF locked THEN sv.lockPending ELSE sv.isLocked
    /\ sv' = Effects(sv, [sv EXCEPT !.isLocked = locked, !.lockPending = FALSE], FALSE)
    /\ lastOp' = Op("handleLockChange", locked)
    /\ UNCHANGED <<appVars, dragEnt, budget, shown, saved, lastCall, pressed>>

(* The "Scene (Splat)" button of the editor panel *)
SelectScene ==
    /\ Mounted /\ sv.isEditMode
    /\ sv' = Effects(sv, [sv EXCEPT !.selectedTarget = "scene", !.activeCharacterId = 0], FALSE)
    /\ lastOp' = Op("SelectScene", 0)
    /\ UNCHANGED <<appVars, dragEnt, budget, shown, saved, lastCall, pressed>>

(* EditorPanel.handleCharacterSelect: a button per element of characters *)
handleCharacterSelect(id) ==
    /\ Mounted /\ sv.isEditMode
    /\ id \in Ids(characters)
    /\ sv' = Effects(sv, [sv EXCEPT !.selectedTarget = "character", !.activeCharacterId = id], FALSE)
    /\ lastOp' = Op("handleCharacterSelect", id)
    /\ UNCHANGED <<appVars, dragEnt, budget, shown, saved, lastCall, pressed>>

(* setGizmoMode: the tool buttons, shown while something is selected *)
SetGizmoMode(m) ==
    /\ Mounted /\ sv.isEditMode /\ sv.selectedTarget # "none"
    /\ sv' = Effects(sv, [sv EXCEPT !.gizmoMode = m], FALSE)
    /\ lastOp' = Op("SetGizmoMode", 0)
    /\ UNCHANGED <<appVars, dragEnt, budget, shown, saved, lastCall, pressed>>

---------------------------------------------------------------------------
(* SceneViewer: numeric transform edits and the frame update *)

EditXf(x, type, i, value) ==
    IF type = "position" THEN [x EXCEPT !.pos = SetAxis(x.pos, i, value)]
    ELSE IF type = "rotation" THEN [x EXCEPT !.rot = EulerReadBack(SetAxis(x.rot, i, value))]
    ELSE [x EXCEPT !.scl = SetAxis(x.scl, i, value)]

(* handleTransformChange with the store written before the target is looked up *)
TransformChangeStoreFirst(s, type, axis, value) ==
    LET e == TargetOf(s)
        s0 == [s EXCEPT !.transforms[type] = SetAxis(@, AxisIx(axis), value)]
        s1 == [s0 EXCEPT !.xf[e] = EditXf(@, type, AxisIx(axis), value)]
    IN  IF e = NoEnt THEN s0 ELSE [s1 EXCEPT !.gizmoRoot = GizmoAt(s1, e)]

TransformChange(s, type, axis, value) ==
    LET e == TargetOf(s)
        s1 == [s EXCEPT !.transforms[type] = SetAxis(@, AxisIx(axis), value),
                        !.xf[e] = EditXf(@, type, AxisIx(axis), value)]
    IN  IF e = NoEnt THEN s ELSE [s1 EXCEPT !.gizmoRoot = GizmoAt(s1, e)]

(* handleTransformChange: a number typed into one of the nine fields of the
   editor panel, which shows them while something is selected *)
handleTransformChange(type, axis, value) ==
    /\ Mounted /\ sv.isEditMode /\ sv.selectedTarget # "none"
    /\ budget < MaxInputs
    /\ sv' = TransformChange(sv, type, axis, value)
    /\ budget' = budget + 1
    /\ lastOp' = Op("handleTransformChange", 0)
    /\ UNCHANGED <<appVars, dragEnt, shown, saved, lastCall, pressed>>

Forward(s) == TransformVector(s.camEuler, Vec3(0, 0, -1000))

Right(s) == TransformVector(s.camEuler, Vec3(1000, 0, 0))

(* update, step 1: the gizmo follows the target *)
GizmoFollow(s) ==
    IF s.gizmoRoot.mode # "none" /\ s.selectedTarget # "none" /\ TargetOf(s) # NoEnt
    THEN [s EXCEPT !.gizmoRoot = GizmoAt(s, TargetOf(s))] ELSE s

BillboardYaw(s, x) == Atan2Deg(s.camPos[1] - x.pos[1], s.camPos[3] - x.pos[3])

(* update, step 2: every registered 2D character turns about y to the camera *)
Billboards(s) ==
    [s EXCEPT !.xf = [h \in DOMAIN s.xf |->
        IF s.xf[h].bb /\ h.k = "character" /\ s.map[h.id] = h
        THEN [s.xf[h] EXCEPT !.rot = EulerReadBack(Vec3(0, BillboardYaw(s, s.xf[h]), 0))]
        ELSE s.xf[h]]]

(* Keys that move the camera whatever the mode is *)
KeyMoveAlways(s, keys, dist) ==
    IF keys = Zero3 THEN s
    ELSE LET f == Forward(s)
             r == Right(s)
             move == [k \in 1 .. 3 |-> RDiv(f[k] * keys[3] * dist + r[k] * keys[1] * dist, 1000) + (IF k = 2 THEN keys[2] * dist ELSE 0)]
         IN  [s EXCEPT !.camPos = VAdd(s.camPos, move)]

(* update, step 3: the pressed keys move the camera by dist along its axes *)
KeyMove(s, keys, dist) ==
    IF ~(s.isLocked \/ s.isEditMode) \/ keys = Zero3 THEN s
    ELSE LET f == Forward(s)
             r == Right(s)
             move == [k \in 1 .. 3 |-> RDiv(f[k] * keys[3] * dist + r[k] * keys[1] * dist, 1000) + (IF k = 2 THEN keys[2] * dist ELSE 0)]
         IN  [s EXCEPT !.camPos = VAdd(s.camPos, move)]

(* update, last step: the look angles follow the camera outside mouse look *)
LookSync(s) ==
    IF ~s.isFreeLooking /\ ~s.isLocked THEN [s EXCEPT !.mouseLookEuler = Vec3(s.camEuler[1], s.camEuler[2], 0)] ELSE s

(* update: one frame, or a run of frames with the same keys held, that moves
   the camera one unit *)
update(keys) ==
    /\ Mounted
    /\ keys # Zero3 => budget < MaxInputs
    /\ sv' = LookSync(KeyMove(Billboards(GizmoFollow(sv)), keys, 4))
    /\ budget' = IF keys # Zero3 THEN budget + 1 ELSE budget
    /\ lastOp' = Op("update", 0)
    /\ UNCHANGED <<appVars, dragEnt, shown, saved, lastCall, pressed>>

---------------------------------------------------------------------------
(* SceneViewer: the mouse handlers *)

Axes(mode) ==
    CASE mode = "translate" -> {"tx", "ty", "tz"}
      [] mode = "rotate" -> {"rx", "ry", "rz"}
      [] mode = "scale" -> {"sx", "sy", "sz"}
      [] OTHER -> {}

(* axis.substring(0, 1) and axis.substring(1) of a handle's tag *)
ModeOf(axis) == IF axis \in Axes("translate") THEN "t" ELSE IF axis \in Axes("rotate") THEN "r" ELSE "s"

DirIx(axis) == IF axis \in {"tx", "rx", "sx"} THEN 1 ELSE IF axis \in {"ty", "ry", "sy"} THEN 2 ELSE 3

(* Where the pointer's ray can meet a drag plane: the plane's point moved by
   a multiple of 4.5 units along the axes, inside the plane *)
DragOffsets == {Vec3(18 * a, 18 * b, 18 * c) : a, b, c \in -1 .. 1}

OnPlane(plane, off) == Dot(off, plane.normal) = 0

(* Plane.intersectsRay: the hit point, left at the origin when the ray misses *)
HitPoint(plane, off, miss) == IF miss THEN Zero3 ELSE VAdd(plane.point, off)

(* The orbit parameters of the camera about tPos *)
OrbitAbout(s, tPos) ==
    LET vec == VSub(s.camPos, tPos) IN
    [alpha |-> Atan2Deg(vec[1], vec[3]), beta |-> AsinDeg(vec[2], Dot(vec, vec)),
     radius |-> Length(vec), targetPivot |-> tPos]

OrbitPosition(o) ==
    VAdd(o.targetPivot, Vec3(RDiv(o.radius * CosDeg(o.beta) * SinDeg(o.alpha), 1000000),
                             RDiv(o.radius * SinDeg(o.beta), 1000),
                             RDiv(o.radius * CosDeg(o.beta) * CosDeg(o.alpha), 1000000)))

NaN3 == Vec3(-999999, -999999, -999999)

(* Entity.lookAt followed by getEulerAngles; looking at the camera's own
   position yields a rotation without numbers *)
LookAtEuler(pos, target) ==
    LET d == VSub(target, pos) IN
    IF d = Zero3 THEN NaN3
    ELSE EulerReadBack(Vec3(AsinDeg(d[2], Dot(d, d)), Atan2Deg(-d[1], -d[3]), 0))

(* onMouseDown on a handle of the gizmo *)
StartDrag(s, hitAxis, off) ==
    LET e == TargetOf(s)
        plane == [point |-> s.xf[e].pos, normal |-> VSub(Zero3, Forward(s))]
        start == CASE ModeOf(hitAxis) = "t" -> s.xf[e].pos
                   [] ModeOf(hitAxis) = "r" -> s.xf[e].rot
                   [] ModeOf(hitAxis) = "s" -> s.xf[e].scl
    IN  IF e = NoEnt THEN [s EXCEPT !.draggedAxis = hitAxis]
        ELSE [s EXCEPT !.draggedAxis = hitAxis, !.dragPlane = plane,
                       !.dragStartPoint = HitPoint(plane, off, FALSE), !.dragStartValue = start]

(* A press on a character that selects it without starting an orbit *)
ClickCharacterSelectOnly(s, id) ==
    [s EXCEPT !.selectedTarget = "character", !.activeCharacterId = id]

(* onMouseDown on the mesh of a registered character *)
ClickCharacter(s, id) ==
    [s EXCEPT !.selectedTarget = "character", !.activeCharacterId = id,
              !.isOrbiting = TRUE, !.orbitParams = OrbitAbout(s, s.xf[s.map[id]].pos)]

(* onMouseDown on the background *)
ClickBackground(s) ==
    IF TargetOf(s) # NoEnt
    THEN [s EXCEPT !.isOrbiting = TRUE, !.orbitParams = OrbitAbout(s, s.xf[TargetOf(s)].pos)]
    ELSE [s EXCEPT !.isFreeLooking = TRUE]

MouseHeld(s) == s.draggedAxis # "none" \/ s.isOrbiting \/ s.isFreeLooking

(* A hit test that looks for a character before it looks for a handle *)
PressCharacterFirst(s, hitAxis, hitChar, off) ==
    IF hitChar # 0 THEN ClickCharacter(s, hitChar)
    ELSE IF hitAxis # "none" THEN StartDrag(s, hitAxis, off)
    ELSE ClickBackground(s)

(* The hit tests of onMouseDown: the handles of the gizmo, then the
   registered characters, then the current target *)
Press(s, hitAxis, hitChar, off) ==
    IF hitAxis # "none" THEN StartDrag(s, hitAxis, off)
    ELSE IF hitChar # 0 THEN ClickCharacter(s, hitChar)
    ELSE ClickBackground(s)

(* onMouseDown with the left button, which returns outside edit mode; a
   second press needs a release first.
   hitAxis is the tag of the closest handle under the pointer, hitChar the
   closest registered character under it, off places the ray on the drag plane *)
onMouseDown(hitAxis, hitChar, off) ==
    /\ Mounted /\ ~MouseHeld(sv)
    /\ budget < MaxInputs
    /\ hitAxis \in Axes(sv.gizmoRoot.mode) \cup {"none"}
    /\ hitChar # 0 => sv.map[hitChar] # NoEnt
    /\ IF hitAxis # "none" /\ TargetOf(sv) # NoEnt
       THEN OnPlane([normal |-> VSub(Zero3, Forward(sv))], off)
       ELSE off = Zero3
    /\ sv' = IF sv.isEditMode THEN Effects(sv, Press(sv, hitAxis, hitChar, off), FALSE) ELSE sv
    /\ dragEnt' = IF sv'.draggedAxis # "none" THEN TargetOf(sv) ELSE dragEnt
    /\ pressed' = [hitAxis |-> hitAxis, hitChar |-> hitChar]
    /\ budget' = budget + 1
    /\ lastOp' = Op("onMouseDown", 0)
    /\ UNCHANGED <<appVars, shown, saved, lastCall>>

(* A release that ends the gizmo drag only *)
ReleasedDragOnly(s) == [s EXCEPT !.draggedAxis = "none"]

(* The three assignments of onMouseUp *)
Released(s) == [s EXCEPT !.draggedAxis = "none", !.isOrbiting = FALSE, !.isFreeLooking = FALSE]

(* onMouseUp *)
onMouseUp ==
    /\ Mounted /\ MouseHeld(sv)
    /\ sv' = Released(sv)
    /\ pressed' = NoPress
    /\ lastOp' = Op("onMouseUp", 0)
    /\ UNCHANGED <<appVars, dragEnt, budget, shown, saved, lastCall>>

(* Mouse look that adds the pointer's travel to the pitch as it is *)
LookUnclamped(s, dx, dy) ==
    LET x == s.mouseLookEuler[1] - RDiv(dy, 5)
        y == s.mouseLookEuler[2] - RDiv(dx, 5)
    IN  [s EXCEPT !.mouseLookEuler = Vec3(x, y, s.mouseLookEuler[3]), !.camEuler = EulerReadBack(Vec3(x, y, 0))]

(* Mouse look of the locked and the free-look branch: 0.2 degrees a pixel *)
Look(s, dx, dy) ==
    LET x == Clamp(s.mouseLookEuler[1] - RDiv(dy, 5), -90, 90)
        y == s.mouseLookEuler[2] - RDiv(dx, 5)
    IN  [s EXCEPT !.mouseLookEuler = Vec3(x, y, s.mouseLookEuler[3]), !.camEuler = EulerReadBack(Vec3(x, y, 0))]

(* The camera placed on the orbit sphere *)
PlaceOnOrbit(s, o, look) ==
    [s EXCEPT !.orbitParams = o, !.camPos = OrbitPosition(o),
              !.camEuler = IF look THEN LookAtEuler(OrbitPosition(o), o.targetPivot) ELSE @]

(* An orbit branch that adds the pointer's travel to the elevation as it is *)
OrbitMoveUnclamped(s, dx, dy) ==
    PlaceOnOrbit(s, [s.orbitParams EXCEPT !.alpha = @ - RDiv(2 * dx, 5),
                                          !.beta = @ + RDiv(2 * dy, 5)], TRUE)

(* The orbit branch: 0.4 degrees a pixel, elevation kept within 89 degrees *)
OrbitMove(s, dx, dy) ==
    PlaceOnOrbit(s, [s.orbitParams EXCEPT !.alpha = @ - RDiv(2 * dx, 5),
                                          !.beta = Clamp(@ + RDiv(2 * dy, 5), -89, 89)], TRUE)

(* A drag that follows the pointer in the drag plane, without the projection
   on the handle's axis *)
DragValueUnprojected(s, hitPoint) ==
    LET i == DirIx(s.draggedAxis)
        axisVec == TransformVector(s.gizmoRoot.rot, UnitAxis(i))
        projectedDelta == Dot(axisVec, VSub(hitPoint, s.dragStartPoint))
        start == s.dragStartValue
    IN  CASE ModeOf(s.draggedAxis) = "t" -> VAdd(start, VSub(hitPoint, s.dragStartPoint))
          [] ModeOf(s.draggedAxis) = "r" -> SetAxis(start, i, start[i] + RDiv(20 * projectedDelta, 4000))
          [] ModeOf(s.draggedAxis) = "s" -> SetAxis(start, i, RDiv(start[i] * (4000 + projectedDelta), 4000))

(* A drag that turns or scales all three axes by the handle's amount *)
DragValueAllAxes(s, hitPoint) ==
    LET i == DirIx(s.draggedAxis)
        axisVec == TransformVector(s.gizmoRoot.rot, UnitAxis(i))
        projectedDelta == Dot(axisVec, VSub(hitPoint, s.dragStartPoint))
        start == s.dragStartValue
    IN  CASE ModeOf(s.draggedAxis) = "t" -> VAdd(start, [k \in 1 .. 3 |-> RDiv(axisVec[k] * projectedDelta, 1000000)])
          [] ModeOf(s.draggedAxis) = "r" -> [k \in 1 .. 3 |-> start[k] + RDiv(20 * projectedDelta, 4000)]
          [] ModeOf(s.draggedAxis) = "s" -> [k \in 1 .. 3 |-> RDiv(start[k] * (4000 + projectedDelta), 4000)]

(* A drag that computes each value from the value the previous move left on
   the entity *)
DragValueFromCurrent(s, hitPoint) ==
    LET i == DirIx(s.draggedAxis)
        e == TargetOf(s)
        axisVec == TransformVector(s.gizmoRoot.rot, UnitAxis(i))
        projectedDelta == Dot(axisVec, VSub(hitPoint, s.dragStartPoint))
    IN  CASE ModeOf(s.draggedAxis) = "t" -> VAdd(s.xf[e].pos, [k \in 1 .. 3 |-> RDiv(axisVec[k] * projectedDelta, 1000000)])
          [] ModeOf(s.draggedAxis) = "r" -> SetAxis(s.xf[e].rot, i, s.xf[e].rot[i] + RDiv(20 * projectedDelta, 4000))
          [] ModeOf(s.draggedAxis) = "s" -> SetAxis(s.xf[e].scl, i, RDiv(s.xf[e].scl[i] * (4000 + projectedDelta), 4000))

(* The value a drag writes: the drag-start value changed along the handle's
   axis by the pointer's travel projected on the gizmo's axis *)
DragValue(s, hitPoint) ==
    LET i == DirIx(s.draggedAxis)
        axisVec == TransformVector(s.gizmoRoot.rot, UnitAxis(i))
        projectedDelta == Dot(axisVec, VSub(hitPoint, s.dragStartPoint))
        start == s.dragStartValue
    IN  CASE ModeOf(s.draggedAxis) = "t" -> VAdd(start, [k \in 1 .. 3 |-> RDiv(axisVec[k] * projectedDelta, 1000000)])
          [] ModeOf(s.draggedAxis) = "r" -> SetAxis(start, i, start[i] + RDiv(20 * projectedDelta, 4000))
          [] ModeOf(s.draggedAxis) = "s" -> SetAxis(start, i, RDiv(start[i] * (4000 + projectedDelta), 4000))

(* The gizmo-drag branch *)
DragMove(s, hitPoint) ==
    LET e == TargetOf(s)
        v == DragValue(s, hitPoint)
    IN  IF e = NoEnt THEN s
        ELSE CASE ModeOf(s.draggedAxis) = "t" -> [s EXCEPT !.xf[e].pos = v, !.transforms.position = v]
               [] ModeOf(s.draggedAxis) = "r" -> [s EXCEPT !.xf[e].rot = EulerReadBack(v), !.transforms.rotation = v]
               [] ModeOf(s.draggedAxis) = "s" -> [s EXCEPT !.xf[e].scl = v, !.transforms.scale = v]

MouseMove(s, dx, dy, hitPoint) ==
    IF s.isLocked THEN Look(s, dx, dy)
    ELSE IF ~s.isEditMode THEN s
    ELSE IF s.isFreeLooking THEN Look(s, dx, dy)
    ELSE IF s.isOrbiting THEN OrbitMove(s, dx, dy)
    ELSE IF s.draggedAxis # "none" /\ s.gizmoRoot.mode # "none" THEN DragMove(s, hitPoint)
    ELSE s

(* Outside pointer lock and a held button in edit mode onMouseMove changes
   nothing *)
PointerActs == sv.isLocked \/ (sv.isEditMode /\ MouseHeld(sv))

(* onMouseMove: the pointer travelled (dx, dy) pixels and its ray meets the
   drag plane at the plane's point moved by off, or misses it *)
onMouseMove(dx, dy, off, miss) ==
    /\ Mounted
    /\ budget < MaxInputs
    /\ OnPlane(sv.dragPlane, off)
    /\ miss => off = Zero3
    /\ sv' = MouseMove(sv, dx, dy, HitPoint(sv.dragPlane, off, miss))
    /\ budget' = budget + 1
    /\ lastOp' = Op("onMouseMove", 0)
    /\ UNCHANGED <<appVars, dragEnt, shown, saved, lastCall, pressed>>

(* A wheel step that leaves the radius wherever the notches take it *)
WheelRadiusUnclamped(radius, wheelDelta) == radius - wheelDelta

(* onMouseWheel, which acts only while orbiting in edit mode: a quarter unit
   a notch, the radius kept within [0.5, 50] *)
WheelRadius(radius, wheelDelta) == Clamp(radius - wheelDelta, 2, 200)

WheelActs == sv.isEditMode /\ sv.isOrbiting

onMouseWheel(wheelDelta) ==
    /\ Mounted
    /\ budget < MaxInputs
    /\ sv' = IF WheelActs
             THEN PlaceOnOrbit(sv, [sv.orbitParams EXCEPT !.radius = WheelRadius(@, wheelDelta)], FALSE)
             ELSE sv
    /\ budget' = budget + 1
    /\ lastOp' = Op("onMouseWheel", 0)
    /\ UNCHANGED <<appVars, dragEnt, shown, saved, lastCall, pressed>>

---------------------------------------------------------------------------
(* services/geminiService.ts *)

MaxGenerations == 2

MaxSkyboxLoads == 3

(* The inline image payloads a response can carry *)
Images == {1, 2}

(* A part of a candidate's content: inlineData = 0 is a part without inline
   data (a text part) *)
Parts == [inlineData : {0} \cup Images]

SeqsUpTo(S, n) == UNION {[1 .. k -> S] : k \in 0 .. n}

(* response.candidates as the sequence of each candidate's content.parts; the
   empty sequence is a response without candidates *)
Responses == SeqsUpTo(SeqsUpTo(Parts, 2), 2)

(* What the call of ai.models.generateContent can reject with: "none" is a
   resolved call, the others are the message of the error *)
CallFailures == {"none", "", "fetch failed"}

DataUrl(data) == [mimeType |-> "image/png", data |-> data]

Resolve(value) == [ok |-> TRUE, value |-> value, message |-> "none"]

Reject(message) == [ok |-> FALSE, value |-> NoImage, message |-> message]

(* The inline image parts of a candidate, in order *)
InlineParts(parts) == SelectSeq(parts, LAMBDA p : p.inlineData # 0)

(* The loop over response.candidates[0].content.parts that takes the last
   inline image instead of returning at the first one *)
ImageOfLastPart(response) ==
    IF Len(response) > 0 /\ InlineParts(response[1]) # <<>>
    THEN Resolve(DataUrl(InlineParts(response[1])[Len(InlineParts(response[1]))].inlineData))
    ELSE Reject("No image data found in response.")

(* The loop over response.candidates[0].content.parts *)
ImageOf(response) ==
    IF Len(response) > 0 /\ InlineParts(response[1]) # <<>>
    THEN Resolve(DataUrl(Head(InlineParts(response[1])).inlineData))
    ELSE Reject("No image data found in response.")

(* generateCharacterInScene: apiKey is whether process.env.API_KEY is set,
   failure what generateContent rejects with, response what it resolves to *)
generateCharacterInScene(apiKey, failure, response) ==
    IF ~apiKey THEN Reject("API Key is missing. Please ensure process.env.API_KEY is available.")
    ELSE IF failure # "none" THEN Reject(failure)
    ELSE ImageOf(response)

---------------------------------------------------------------------------
(* App and ControlPanel: generation, reset and the view mode buttons *)

Prompts == {"", "add a knight"}

(* captureScene *)
captureScene == IF captureRef THEN "data:image/png" ELSE "null"

(* The submit button and the prompt input are live whatever isGenerating is *)
CanSubmitWhileGenerating(prompt) == prompt # ""

(* ControlPanel: the prompt input and the submit button are disabled while
   isGenerating, and handleSubmit returns on an empty prompt *)
CanSubmit(prompt) == ~generationState.isGenerating /\ prompt # ""

(* handleGenerate up to its await; sceneSnapshot is the upload whose scene the
   captured picture shows *)
handleGenerate(prompt) ==
    /\ nextGen <= MaxGenerations
    /\ IF captureScene = "null"
       THEN /\ generationState' = [generationState EXCEPT !.error = "Failed to capture 3D scene."]
            /\ UNCHANGED <<pendingGen, nextGen>>
       ELSE /\ generationState' = [isGenerating |-> TRUE, generatedImage |-> NoImage, error |-> "none"]
            /\ pendingGen' = pendingGen \cup {[n |-> nextGen, prompt |-> prompt, sceneSnapshot |-> nextUpload - 1]}
            /\ nextGen' = nextGen + 1
    /\ lastOp' = Op("handleGenerate", prompt)
    /\ UNCHANGED <<splatUrl, isLoading, characters, viewMode, captureRef, pendingUnzip, nextUpload, nextCharId, nextLoad, sv, dragEnt, budget, shown, saved, lastCall, pressed>>

(* ControlPanel handleSubmit *)
handleSubmit(prompt) ==
    /\ CanSubmit(prompt)
    /\ handleGenerate(prompt)

(* The caught error's message as it is *)
ErrorMessageRaw(message) == message

(* error.message || "Something went wrong during generation." *)
ErrorMessage(message) == IF message # "" THEN message ELSE "Something went wrong during generation."

(* handleGenerate after its await: the rest of the try block, or the catch block *)
generateSettled(g, apiKey, failure, response) ==
    LET r == generateCharacterInScene(apiKey, failure, response) IN
    /\ g \in pendingGen
    /\ pendingGen' = pendingGen \ {g}
    /\ IF r.ok
       THEN /\ generationState' = [isGenerating |-> FALSE, generatedImage |-> r.value, error |-> "none"]
            /\ viewMode' = "RESULT"
       ELSE /\ generationState' = [isGenerating |-> FALSE, generatedImage |-> NoImage,
                                   error |-> ErrorMessage(r.message)]
            /\ UNCHANGED viewMode
    /\ lastCall' = [apiKey |-> apiKey, failure |-> failure, response |-> response, result |-> r]
    /\ lastOp' = Op(IF r.ok THEN "generateResolved" ELSE "generateRejected", g.n)
    /\ UNCHANGED <<splatUrl, isLoading, characters, captureRef, nextGen, pendingUnzip, nextUpload, nextCharId, nextLoad, sv, dragEnt, budget, shown, saved, pressed>>

hasResult == generationState.generatedImage # NoImage

(* handleReset, the Clear button: shown with a result, disabled while generating *)
handleReset ==
    /\ hasResult /\ ~generationState.isGenerating
    /\ generationState' = [generationState EXCEPT !.generatedImage = NoImage, !.error = "none"]
    /\ viewMode' = "VIEWPORT"
    /\ lastOp' = Op("handleReset", 0)
    /\ UNCHANGED <<splatUrl, isLoading, characters, captureRef, pendingGen, nextGen, pendingUnzip, nextUpload, nextCharId, nextLoad, sv, dragEnt, budget, shown, saved, lastCall, pressed>>

(* The view mode buttons: Result and Split are shown with a result only *)
setViewMode(mode) ==
    /\ mode # "VIEWPORT" => hasResult
    /\ viewMode # mode
    /\ viewMode' = mode
    /\ lastOp' = Op("setViewMode", mode)
    /\ UNCHANGED <<splatUrl, isLoading, characters, generationState, captureRef, pendingGen, nextGen, pendingUnzip, nextUpload, nextCharId, nextLoad, sv, dragEnt, budget, shown, saved, lastCall, pressed>>

(* Outcomes of a call: an image after a text part, a missing API key, a
   failed network call with an empty message, a response without candidates *)
SomeOutcomes ==
    { <<TRUE, "none", <<<<[inlineData |-> 0], [inlineData |-> 1]>>>> >>,
      <<FALSE, "none", <<>> >>,
      <<TRUE, "", <<>> >>,
      <<TRUE, "none", <<>> >> }

(* The generation specification: scene uploads and their asset loads, one
   character, generation requests and their outcomes, reset and view modes *)

NextGenerate ==
    \/ nextUpload <= 2 /\ UploadSplatPlain
    \/ nextUpload <= 2 /\ UploadSplatSpz
    \/ \E u \in 1 .. MaxUploads : UnzipDone(u)
    \/ \E u \in 1 .. MaxUploads : UnzipFail(u)
    \/ \E u \in 1 .. MaxUploads : SceneReady(u)
    \/ \E u \in 1 .. MaxUploads : SceneLoadError(u)
    \/ \E prompt \in Prompts : handleSubmit(prompt)
    \/ \E g \in pendingGen, o \in SomeOutcomes : generateSettled(g, o[1], o[2], o[3])
    \/ handleReset
    \/ \E mode \in {"VIEWPORT", "RESULT", "SPLIT"} : setViewMode(mode)

SpecGenerate == Init /\ [][NextGenerate]_vars

(* The service specification: generation requests and every response of the
   image service *)

NextService ==
    \/ \E prompt \in Prompts : handleSubmit(prompt)
    \/ \E g \in pendingGen, apiKey \in BOOLEAN, failure \in CallFailures, response \in Responses :
           generateSettled(g, apiKey, failure, response)
    \/ handleReset

SpecService == Init /\ [][NextService]_vars

---------------------------------------------------------------------------
(* The scene specification: overlapping scene uploads and their asset loads *)

NextScene ==
    \/ UploadSplatPlain
    \/ UploadSplatSpz
    \/ \E u \in 1 .. MaxUploads : UnzipDone(u)
    \/ \E u \in 1 .. MaxUploads : UnzipFail(u)
    \/ \E u \in 1 .. MaxUploads : SceneReady(u)
    \/ \E u \in 1 .. MaxUploads : SceneLoadError(u)
    \/ EnterEditMode
    \/ LeaveEditMode

SpecScene == Init /\ [][NextScene]_vars

(* The registry specification: the character list, its asset loads, the
   entity registry and the selection *)

NextRegistry ==
    \/ \E t \in {"3d", "2d"} : UploadCharacter(t)
    \/ \E id \in CharIds : RemoveCharacter(id)
    \/ \E l \in sv.charLoads : CharReady(l)
    \/ \E l \in sv.charLoads : CharLoadError(l)
    \/ EnterEditMode
    \/ LeaveEditMode
    \/ SelectScene
    \/ \E id \in CharIds : handleCharacterSelect(id)

SpecRegistry == Init /\ [][NextRegistry]_vars

(* The gizmo specification: one 3D character and no scene, the editor
   panel, presses on the handles of the gizmo and drags of them *)

GizmoEdits == {<<"position", "x", 8>>, <<"rotation", "x", 90>>, <<"rotation", "y", 90>>, <<"rotation", "z", 90>>, <<"scale", "y", 8>>}

NextGizmo ==
    \/ nextCharId = 1 /\ UploadCharacter("3d")
    \/ \E l \in sv.charLoads : CharReady(l)
    \/ EnterEditMode
    \/ SelectScene
    \/ \E id \in CharIds : handleCharacterSelect(id)
    \/ \E m \in {"translate", "rotate", "scale"} : SetGizmoMode(m)
    \/ \E e \in GizmoEdits : handleTransformChange(e[1], e[2], e[3])
    \/ sv.isEditMode /\ \E hitAxis \in Axes(sv.gizmoRoot.mode) : onMouseDown(hitAxis, 0, Zero3)
    \/ PointerActs /\ \E off \in DragOffsets, miss \in BOOLEAN : onMouseMove(0, 0, off, miss)
    \/ onMouseUp
    \/ update(Zero3)

SpecGizmo == Init /\ [][NextGizmo]_vars

(* The camera specification: one character, numeric position edits that
   move it away from or into the camera, presses on the character or the
   background, orbit and free-look moves, the wheel and the movement keys *)

CameraEdits == {<<"position", "x", 240>>, <<"position", "y", 6>>, <<"position", "z", 16>>}

PointerTravel == {<<225, 0>>, <<0, -225>>}

NextCamera ==
    \/ nextCharId = 1 /\ \E t \in {"3d", "2d"} : UploadCharacter(t)
    \/ \E l \in sv.charLoads : CharReady(l)
    \/ EnterEditMode
    \/ LeaveEditMode
    \/ SelectScene
    \/ \E e \in CameraEdits : handleTransformChange(e[1], e[2], e[3])
    \/ sv.isEditMode /\ \E hitChar \in {0} \cup CharIds : onMouseDown("none", hitChar, Zero3)
    \/ PointerActs /\ \E d \in PointerTravel : onMouseMove(d[1], d[2], Zero3, FALSE)
    \/ WheelActs /\ \E wheelDelta \in {-1, 1} : onMouseWheel(wheelDelta)
    \/ onMouseUp
    \/ \E keys \in {Zero3, Vec3(0, 0, 1)} : update(keys)

SpecCamera == Init /\ [][NextCamera]_vars

(* The failure specification: one character that is edited, one .spz upload,
   one image request, and the failure of each of them *)

NextFailures ==
    \/ nextCharId = 1 /\ UploadCharacter("3d")
    \/ \E l \in sv.charLoads : CharReady(l)
    \/ \E l \in sv.charLoads : CharLoadError(l)
    \/ EnterEditMode
    \/ SelectScene
    \/ handleTransformChange("position", "x", 8)
    \/ nextUpload = 1 /\ UploadSplatSpz
    \/ \E u \in 1 .. MaxUploads : UnzipDone(u)
    \/ \E u \in 1 .. MaxUploads : UnzipFail(u)
    \/ \E u \in 1 .. MaxUploads : SceneReady(u)
    \/ \E u \in 1 .. MaxUploads : SceneLoadError(u)
    \/ nextGen = 1 /\ handleSubmit("add a knight")
    \/ \E g \in pendingGen, o \in SomeOutcomes : generateSettled(g, o[1], o[2], o[3])

SpecFailures == Init /\ [][NextFailures]_vars

(* The mode specification: one character, the pointer lock and its
   asynchronous grant, edit mode, selection changes, presses and releases *)

NextModes ==
    \/ nextCharId = 1 /\ UploadCharacter("3d")
    \/ \E l \in sv.charLoads : CharReady(l)
    \/ requestPointerLock
    \/ lockRequestRejected
    \/ \E locked \in BOOLEAN : handleLockChange(locked)
    \/ EnterEditMode
    \/ LeaveEditMode
    \/ SelectScene
    \/ \E id \in CharIds : handleCharacterSelect(id)
    \/ sv.isEditMode /\ \E hitAxis \in Axes(sv.gizmoRoot.mode) \cup {"none"}, hitChar \in {0} \cup CharIds : onMouseDown(hitAxis, hitChar, Zero3)
    \/ PointerActs /\ onMouseMove(0, 0, Zero3, FALSE)
    \/ onMouseUp

SpecModes == Init /\ [][NextModes]_vars

(* The idle specification: one character, edit mode and pointer lock entered
   and left, and presses, pointer moves, wheel notches and movement keys in
   every mode *)

NextIdle ==
    \/ nextCharId = 1 /\ \E type \in {"3d", "2d"} : UploadCharacter(type)
    \/ \E l \in sv.charLoads : CharReady(l)
    \/ requestPointerLock
    \/ \E locked \in BOOLEAN : handleLockChange(locked)
    \/ EnterEditMode
    \/ LeaveEditMode
    \/ \E hitChar \in {0} \cup CharIds : onMouseDown("none", hitChar, Zero3)
    \/ \E d \in PointerTravel : onMouseMove(d[1], d[2], Zero3, FALSE)
    \/ onMouseWheel(1)
    \/ onMouseUp
    \/ \E keys \in {Zero3, Vec3(0, 0, 1)} : update(keys)

SpecIdle == Init /\ [][NextIdle]_vars

(* The billboard specification: 2D characters, numeric rotation and position
   edits, frames, and keys that move the camera sideways *)

BillboardEdits == {<<"rotation", "x", 90>>, <<"rotation", "y", 45>>, <<"position", "x", 64>>}

NextBillboard ==
    \/ UploadCharacter("2d")
    \/ \E l \in sv.charLoads : CharReady(l)
    \/ EnterEditMode
    \/ \E e \in BillboardEdits : handleTransformChange(e[1], e[2], e[3])
    \/ \E keys \in {Zero3, Vec3(1, 0, 0)} : update(keys)

SpecBillboard == Init /\ [][NextBillboard]_vars

---------------------------------------------------------------------------
(* Claims about scene uploads *)

LastUpload == nextUpload - 1

ScenesSettled == pendingUnzip = {} /\ Mounted /\ sv.sceneLoads = {}

(* C1: for uploads A then B, once both have completed (nothing of any upload
   is still in flight) and B's scene was created, the scene entity that is
   live and referenced by the viewer is B's, in every interleaving. *)
C1_LastUploadWins ==
    (LastUpload >= 2 /\ ScenesSettled /\ LastUpload \in shown)
        => (sv.splatEntity = SceneEnt(LastUpload) /\ SceneEnt(LastUpload) \in Live(sv))

(* C2: at most one scene entity is live in the renderer in every reachable state. *)
C2_OneSceneEntity == Cardinality(LiveScenes(sv)) <= 1

---------------------------------------------------------------------------
(* Claims about the character registry and the selection *)

(* C3: adding a character is idempotent in its id: once every character load
   has completed, no id of the character list has more than one live entity. *)
C3_OneEntityPerId ==
    (Mounted /\ sv.charLoads = {}) => \A id \in Ids(characters) : Cardinality(LiveOf(sv, id)) <= 1

(* C4: every id of the entity registry is an id of the current character
   list, and the selected character is one of the list. *)
C4_RegistryWithinList ==
    /\ \A id \in CharIds : sv.map[id] # NoEnt => id \in Ids(characters)
    /\ sv.selectedTarget = "character" => sv.activeCharacterId \in Ids(characters)

Selection(s) == <<s.selectedTarget, s.activeCharacterId>>

(* C5: removing a character that has a live entity destroys the entity and
   deletes it from the registry; the selection becomes none if that character
   was selected and is unchanged otherwise. *)
C5_RemoveClearsSelection ==
    [][\A id \in CharIds :
        (lastOp' = "RemoveCharacter" /\ id \in Ids(characters) /\ id \notin Ids(characters') /\ sv.map[id] # NoEnt)
            => /\ sv.map[id] \notin Live(sv')
               /\ sv'.map[id] = NoEnt
               /\ IF Selection(sv) = <<"character", id>>
                  THEN Selection(sv') = <<"none", 0>>
                  ELSE Selection(sv') = Selection(sv)]_vars

(* C6: whenever the selected target kind is character, the selected id has a
   live entity in the registry. *)
C6_SelectionIsLive ==
    sv.selectedTarget = "character" => (sv.activeCharacterId # 0 /\ sv.map[sv.activeCharacterId] \in Live(sv))

---------------------------------------------------------------------------
(* Claims about numeric edits and gizmo drags *)

(* The gizmo-drag branch of onMouseMove is the one taken *)
DragActive(s) ==
    /\ ~s.isLocked /\ s.isEditMode /\ ~s.isFreeLooking /\ ~s.isOrbiting
    /\ s.draggedAxis # "none" /\ s.gizmoRoot.mode # "none"

DragMoveStep(mode) == lastOp' = "onMouseMove" /\ DragActive(sv) /\ ModeOf(sv.draggedAxis) = mode /\ TargetOf(sv) # NoEnt

Others(i) == (1 .. 3) \ {i}

(* C7: while the selection resolves to no live entity, a numeric transform
   edit and a pointer-move change no entity transform and leave the
   position, rotation and scale of the transform store as they were. *)
C7_NoTargetNoOp ==
    [][(TargetOf(sv) = NoEnt /\ lastOp' \in {"handleTransformChange", "onMouseMove"})
        => (sv'.xf = sv.xf /\ sv'.transforms = sv.transforms)]_vars

C7_Witness ==
    /\ lastOp = "onMouseMove" /\ DragActive(sv) /\ TargetOf(sv) = NoEnt

(* C8 as stated: every pointer-move of a translate drag on the entity that
   was pressed leaves the entity's two non-constrained position components
   at their values from before the drag, whatever the entity's rotation. *)
C8_TranslateKeepsOthers ==
    [][(DragMoveStep("t") /\ TargetOf(sv) = dragEnt)
        => \A k \in Others(DirIx(sv.draggedAxis)) : sv'.xf[dragEnt].pos[k] = sv.dragStartValue[k]]_vars

(* The gizmo's rotation maps the dragged handle's axis to itself or its opposite *)
AxisKept(s) ==
    LET axisVec == TransformVector(s.gizmoRoot.rot, UnitAxis(DirIx(s.draggedAxis)))
    IN  axisVec = UnitAxis(DirIx(s.draggedAxis)) \/ axisVec = VSub(Zero3, UnitAxis(DirIx(s.draggedAxis)))

(* C8, amended: every pointer-move of a translate drag whose gizmo rotation
   maps the handle's axis to itself or its opposite writes, to the target and
   to the store, a position whose two non-constrained components are those of
   the recorded drag-start position. *)
C8_TranslateKeepsOthersAligned ==
    [][(DragMoveStep("t") /\ AxisKept(sv))
        => \A k \in Others(DirIx(sv.draggedAxis)) :
              /\ sv'.xf[TargetOf(sv)].pos[k] = sv.dragStartValue[k]
              /\ sv'.transforms.position[k] = sv.dragStartValue[k]]_vars

C8_Witness ==
    /\ lastOp = "onMouseMove" /\ DragActive(sv) /\ ModeOf(sv.draggedAxis) = "t"
    /\ TargetOf(sv) # NoEnt /\ AxisKept(sv)
    /\ sv.xf[TargetOf(sv)].rot # Zero3
    /\ sv.xf[TargetOf(sv)].pos # sv.dragStartValue
    /\ sv.transforms.position = sv.xf[TargetOf(sv)].pos

(* C9: every pointer-move of a rotate (scale) drag writes a rotation (scale)
   whose two non-constrained components are those of the recorded drag-start
   value, gives it to the target, and leaves the target's other two transform
   kinds as they were, in the entity and in the store. *)
C9_RotateScaleKeepOthers ==
    [][\A m \in {"r", "s"} : DragMoveStep(m) =>
        LET e == TargetOf(sv)
            written == IF m = "r" THEN sv'.transforms.rotation ELSE sv'.transforms.scale
        IN  /\ \A k \in Others(DirIx(sv.draggedAxis)) : written[k] = sv.dragStartValue[k]
            /\ sv'.xf[e].pos = sv.xf[e].pos /\ sv'.transforms.position = sv.transforms.position
            /\ IF m = "r"
               THEN /\ sv'.xf[e].rot = EulerReadBack(written)
                    /\ sv'.xf[e].scl = sv.xf[e].scl /\ sv'.transforms.scale = sv.transforms.scale
               ELSE /\ sv'.xf[e].scl = written
                    /\ sv'.xf[e].rot = sv.xf[e].rot /\ sv'.transforms.rotation = sv.transforms.rotation]_vars

C9_Witness ==
    /\ lastOp = "onMouseMove" /\ DragActive(sv) /\ ModeOf(sv.draggedAxis) = "r"
    /\ TargetOf(sv) # NoEnt
    /\ sv.transforms.rotation # sv.dragStartValue
    /\ sv.xf[TargetOf(sv)].rot = EulerReadBack(sv.transforms.rotation)

---------------------------------------------------------------------------
(* Claims about the orbit camera *)

OrbitRadiusInRange(s) == s.orbitParams.radius >= 2 /\ s.orbitParams.radius <= 200

(* C10 as stated: in every reachable state in which the camera is orbiting,
   the orbit radius lies in [0.5, 50]. *)
C10_OrbitRadiusClamped == sv.isOrbiting => OrbitRadiusInRange(sv)

(* C10, amended: after every wheel input handled while orbiting, the orbit
   radius lies in [0.5, 50], whatever it was before. *)
C10_WheelClampsRadius ==
    [][lastOp' = "onMouseWheel" => OrbitRadiusInRange(sv')]_vars

C10_Witness ==
    /\ lastOp = "onMouseWheel" /\ sv.isOrbiting
    /\ sv.orbitParams.radius = 200
    /\ Length(VSub(sv.camPos, sv.orbitParams.targetPivot)) <= 200

(* The orbit branch of onMouseMove is the one taken *)
OrbitActive(s) == ~s.isLocked /\ s.isEditMode /\ ~s.isFreeLooking /\ s.isOrbiting

(* C11: after every pointer-move handled while orbiting, the orbit elevation
   lies in [-89, 89] degrees, so the vertical component of the up vector of a
   camera that looks at the pivot from that elevation, cos(elevation), stays
   positive. *)
C11_ElevationClamped ==
    [][(lastOp' = "onMouseMove" /\ OrbitActive(sv))
        => /\ sv'.orbitParams.beta >= -89 /\ sv'.orbitParams.beta <= 89
           /\ CosDeg(sv'.orbitParams.beta) > 0]_vars

C11_Witness ==
    /\ lastOp = "onMouseMove" /\ OrbitActive(sv)
    /\ sv.orbitParams.beta = -89
    /\ sv.camPos # CameraStart

---------------------------------------------------------------------------
(* Claims about generation *)

NoSceneLoaded == splatUrl = 0 /\ LiveScenes(sv) = {}

(* C12: generation invoked while no scene is loaded is a capture failure: it
   aborts with the error "Failed to capture 3D scene", the image service is
   not called and the generating flag is not set. *)
C12_NoSceneAborts ==
    [][(lastOp' = "handleGenerate" /\ NoSceneLoaded)
        => /\ pendingGen' = pendingGen
           /\ ~generationState'.isGenerating
           /\ generationState'.error = "Failed to capture 3D scene."]_vars

(* C13: at most one image request is in flight at any time: while
   isGenerating is true the generate operation of the control panel starts no
   second call. *)
C13_OneRequestInFlight ==
    /\ [](Cardinality(pendingGen) <= 1 /\ (pendingGen # {} => generationState.isGenerating))
    /\ [][generationState.isGenerating => pendingGen' \subseteq pendingGen]_vars

C13_Witness ==
    /\ Cardinality(pendingGen) = 1
    /\ nextGen > 2
    /\ generationState.isGenerating
    /\ lastOp = "UploadSplatPlain"

GenerateSettledStep == lastOp' \in {"generateResolved", "generateRejected"} /\ pendingGen' # pendingGen

(* C14: every image request that completes ends with isGenerating false; on
   a failure the error is a non-empty message and generatedImage is null, on
   success generatedImage is the returned image and the error is null. *)
C14_RequestEnds ==
    [][GenerateSettledStep
        => /\ ~generationState'.isGenerating
           /\ lastCall'.result.ok
                => /\ generationState'.generatedImage = lastCall'.result.value
                   /\ generationState'.generatedImage # NoImage
                   /\ generationState'.error = "none"
           /\ ~lastCall'.result.ok
                => /\ generationState'.error \notin {"none", ""}
                   /\ generationState'.generatedImage = NoImage]_vars

C14_Witness ==
    /\ lastOp = "generateRejected"
    /\ lastCall.apiKey /\ lastCall.failure = ""
    /\ generationState = [isGenerating |-> FALSE, generatedImage |-> NoImage, error |-> "Something went wrong during generation."]

---------------------------------------------------------------------------
(* Claims about failures *)

(* C15: an .spz archive without an inner .splat, .ksplat or .ply file makes
   the upload fail with a descriptive error message, leaves the scene URL
   null and returns isLoading to false. *)
C15_EmptyArchiveFails ==
    [][(lastOp' = "UnzipFail" /\ pendingUnzip' # pendingUnzip)
        => /\ generationState'.error \in {"Failed to load file: " \o message : message \in UnzipErrors}
           /\ generationState'.error \notin {"none", ""}
           /\ splatUrl' = 0
           /\ ~isLoading']_vars

C15_Witness ==
    /\ lastOp = "UnzipFail"
    /\ generationState.error = "Failed to load file: No valid .splat or .ply file found inside SPZ archive"
    /\ splatUrl = 0 /\ ~isLoading
    /\ shown # {}

(* The character list, the selection and the transforms of an editing state *)
Kept(e) == <<e.characters, e.selection, e.transforms>>

(* C16: after a single failure (scene file, character asset, image service)
   the editing state is what it was before the failed operation: the
   character list, the selection and the transforms of the live entities; and
   upload and generation are enabled again. *)
C16_FailureKeepsEditing ==
    [][/\ (lastOp = "UploadSplatSpz" /\ lastOp' = "UnzipFail")
            => (Kept(Editing(sv', characters')) = Kept(saved) /\ ~isLoading')
       /\ lastOp' \in {"SceneLoadError", "CharLoadError"}
            => Kept(Editing(sv', characters')) = Kept(Editing(sv, characters))
       /\ lastOp' = "generateRejected"
            => (Kept(Editing(sv', characters')) = Kept(Editing(sv, characters)) /\ ~generationState'.isGenerating)]_vars

---------------------------------------------------------------------------
(* Claims about concurrent character loads *)

(* C17: when two distinct characters load concurrently, in either completion
   order each ready callback creates only its own entity, registers it under
   its own id, and leaves every other entity and every other registry entry
   as it was; every registry entry is one live entity of that id. *)
C17_ReadyCallbacksIndependent ==
    [][\A l \in sv.charLoads :
        (lastOp' = "CharReady" /\ l \notin sv'.charLoads)
            => /\ Live(sv') \ Live(sv) = {CharEnt(l.id, l.n)}
               /\ sv'.map[l.id] = CharEnt(l.id, l.n)
               /\ \A id \in CharIds \ {l.id} : sv'.map[id] = sv.map[id]
               /\ \A h \in Live(sv) : h \in Live(sv') /\ sv'.xf[h] = sv.xf[h]
               /\ \A id \in CharIds : sv'.map[id] # NoEnt => (sv'.map[id] \in Live(sv') /\ sv'.map[id].id = id)]_vars

(* Both characters are registered, and character 1, uploaded first, was the
   last to become ready *)
C17_Witness ==
    /\ lastOp = "CharReady"
    /\ \A id \in {1, 2} : sv.map[id] \in Live(sv) /\ id \in Ids(characters)
    /\ sv.map[1].n = 1 /\ sv.map[2].n = 3
    /\ sv.activeCharacterId = 1

---------------------------------------------------------------------------
(* Claims about the interaction modes *)

ActiveModes(s) == {m \in {"Locked", "Orbiting", "FreeLooking"} :
                      \/ m = "Locked" /\ s.isLocked
                      \/ m = "Orbiting" /\ s.isOrbiting
                      \/ m = "FreeLooking" /\ s.isFreeLooking}

(* C18: in every reachable state at most one of Locked, Orbiting and
   FreeLooking is active, and a gizmo-axis drag is never active together with
   Orbiting or FreeLooking. *)
C18_ModesExclusive ==
    /\ Cardinality(ActiveModes(sv)) <= 1
    /\ sv.draggedAxis # "none" => (~sv.isOrbiting /\ ~sv.isFreeLooking)

---------------------------------------------------------------------------
(* Claims about the image service *)

(* No part of any candidate of the response carries inline data *)
NoPayload(response) == \A i \in 1 .. Len(response) : \A j \in 1 .. Len(response[i]) : response[i][j].inlineData = 0

(* The first candidate has a part with inline data *)
FirstCandidateHasImage(response) == Len(response) > 0 /\ \E j \in 1 .. Len(response[1]) : response[1][j].inlineData # 0

FirstImage(response) ==
    response[1][CHOOSE j \in 1 .. Len(response[1]) :
                    /\ response[1][j].inlineData # 0
                    /\ \A k \in 1 .. j - 1 : response[1][k].inlineData = 0].inlineData

(* C19: the image-service call rejects when the API key is absent, when the
   network call fails, or when the response has no image payload; when the
   first candidate has an inline image part it resolves to that first image
   as a PNG data URL. *)
C19_ServiceOutcome ==
    /\ (~lastCall.apiKey \/ lastCall.failure # "none" \/ NoPayload(lastCall.response))
          => ~lastCall.result.ok
    /\ (lastCall.apiKey /\ lastCall.failure = "none" /\ FirstCandidateHasImage(lastCall.response))
          => /\ lastCall.result.ok
             /\ lastCall.result.value = [mimeType |-> "image/png", data |-> FirstImage(lastCall.response)]

C19_Witness ==
    /\ lastOp = "generateResolved"
    /\ lastCall.response = << <<[inlineData |-> 0], [inlineData |-> 2]>>, <<[inlineData |-> 1]>> >>
    /\ generationState.generatedImage = [mimeType |-> "image/png", data |-> 2]

(* C20: after a release of the primary button the controller is Idle: no
   gizmo axis is dragged and neither Orbiting nor FreeLooking is active. *)
C20_ReleaseIsIdle ==
    [][lastOp' = "onMouseUp"
        => /\ sv'.draggedAxis = "none"
           /\ ~sv'.isOrbiting
           /\ ~sv'.isFreeLooking]_vars

(* A release that ended an orbit around the character *)
C20_Witness ==
    /\ lastOp = "onMouseUp"
    /\ sv.orbitParams # ViewerInit.orbitParams
    /\ ~MouseHeld(sv)

---------------------------------------------------------------------------
(* Claims about presses *)

PressStep == lastOp' = "onMouseDown" /\ sv.isEditMode /\ ~MouseHeld(sv)

CameraMode(s) == <<s.isLocked, s.isOrbiting, s.isFreeLooking, s.orbitParams, s.camPos, s.camEuler>>

(* C21: a primary press in edit mode whose ray meets a handle of the gizmo
   starts a drag on that handle's axis and changes neither the selection nor
   the camera mode, also when a character lies under the pointer; a character
   is selected by a press only when no handle is hit. *)
C21_GizmoFirst ==
    [][PressStep
        => /\ pressed'.hitAxis # "none"
                => /\ sv'.draggedAxis = pressed'.hitAxis
                   /\ Selection(sv') = Selection(sv)
                   /\ CameraMode(sv') = CameraMode(sv)
           /\ Selection(sv') # Selection(sv) => pressed'.hitAxis = "none"]_vars

C21_Witness ==
    /\ lastOp = "onMouseDown"
    /\ pressed.hitAxis = "ty" /\ pressed.hitChar = 1
    /\ sv.draggedAxis = "ty"
    /\ Selection(sv) = <<"scene", 0>>
    /\ sv.map[1] \in Live(sv)

OrbitingAbout(s, tPos) == s.isOrbiting /\ ~s.isFreeLooking /\ s.draggedAxis = "none" /\ s.orbitParams.targetPivot = tPos

(* C22: a primary press in edit mode that hits no handle: on a character,
   the selection becomes that character and the camera orbits it from the
   same press; otherwise, with a selection that resolves to a live entity,
   the camera orbits that entity and the selection is unchanged; otherwise
   the camera enters free look. *)
C22_PressResolution ==
    [][(PressStep /\ pressed'.hitAxis = "none")
        => IF pressed'.hitChar # 0
           THEN /\ Selection(sv') = <<"character", pressed'.hitChar>>
                /\ OrbitingAbout(sv', sv.xf[sv.map[pressed'.hitChar]].pos)
           ELSE IF TargetOf(sv) \in Live(sv)
           THEN /\ Selection(sv') = Selection(sv)
                /\ OrbitingAbout(sv', sv.xf[TargetOf(sv)].pos)
           ELSE /\ Selection(sv') = Selection(sv)
                /\ sv'.isFreeLooking /\ ~sv'.isOrbiting /\ sv'.draggedAxis = "none"]_vars

(* A press on the character, moved to x = 60 before, while the scene was
   selected or not *)
C22_Witness ==
    /\ lastOp = "onMouseDown"
    /\ pressed = [hitAxis |-> "none", hitChar |-> 1]
    /\ Selection(sv) = <<"character", 1>>
    /\ OrbitingAbout(sv, Vec3(240, 0, 0))

---------------------------------------------------------------------------
(* Claims about the idle controller and mouse look *)

Idle(s) == ~s.isLocked /\ ~s.isEditMode

(* A press, a pointer move, a wheel notch, or a frame with movement keys held *)
InputStep == lastOp' \in {"onMouseDown", "onMouseMove", "onMouseWheel"} \/ (lastOp' = "update" /\ budget' # budget)

(* C23: while the controller is neither Locked nor in edit mode, presses,
   pointer moves, wheel input and movement keys leave the camera pose, the
   selection, the mode flags and every entity transform unchanged (a frame
   still turns the 2D characters to the camera, with or without keys). *)
C23_IdleInputsIgnored ==
    [][(InputStep /\ Idle(sv))
        => /\ sv'.camPos = sv.camPos /\ sv'.camEuler = sv.camEuler
           /\ Selection(sv') = Selection(sv)
           /\ <<sv'.isLocked, sv'.isEditMode, sv'.isOrbiting, sv'.isFreeLooking, sv'.draggedAxis>>
                = <<sv.isLocked, sv.isEditMode, sv.isOrbiting, sv.isFreeLooking, sv.draggedAxis>>
           /\ Live(sv') = Live(sv)
           /\ \A h \in Live(sv) :
                \/ sv'.xf[h] = sv.xf[h]
                \/ lastOp' = "update" /\ sv.xf[h].bb /\ sv'.xf[h] = [sv.xf[h] EXCEPT !.rot = sv'.xf[h].rot]]_vars

(* A frame with keys held, after edit mode was left with the camera moved *)
C23_Witness ==
    /\ lastOp = "update" /\ budget = 2
    /\ Idle(sv)
    /\ sv.camPos = Vec3(0, 6, 12)
    /\ sv.map[1] \in Live(sv)

Up(s) == TransformVector(s.camEuler, Vec3(0, 1000, 0))

(* The mouse-look branches of onMouseMove: pointer lock, or free look in edit mode *)
LookActive(s) == s.isLocked \/ (s.isEditMode /\ s.isFreeLooking)

(* C24: after every pointer move handled in Locked or FreeLooking mode the
   camera pitch lies in [-90, 90] degrees and the camera roll is 0: the
   angles given to the camera are in range, its right vector is level and
   its up vector does not point down. *)
C24_LookPitchClamped ==
    [][(lastOp' = "onMouseMove" /\ LookActive(sv))
        => /\ sv'.mouseLookEuler[1] >= -90 /\ sv'.mouseLookEuler[1] <= 90
           /\ sv'.mouseLookEuler[3] = 0
           /\ Right(sv')[2] = 0
           /\ Up(sv')[2] >= 0
           /\ Forward(sv')[2] = SinDeg(sv'.mouseLookEuler[1])]_vars

(* Pointer lock, the pitch at its limit and the yaw beyond a quarter turn *)
C24_Witness ==
    /\ lastOp = "onMouseMove"
    /\ sv.isLocked
    /\ sv.mouseLookEuler[1] = 90
    /\ sv.mouseLookEuler[2] = -45

---------------------------------------------------------------------------
(* Claims about frames *)

(* The live entities of 2D characters *)
Live2D(s) == {h \in Live(s) : h.k = "character" /\ s.xf[h].bb}

(* The rotation of the entity h of s turned about the vertical axis to a
   camera at camPos *)
FacingCamera(s, h, camPos) == EulerReadBack(Vec3(0, Atan2Deg(camPos[1] - s.xf[h].pos[1], camPos[3] - s.xf[h].pos[3]), 0))

(* C25: after every frame each live 2D character has pitch 0 and roll 0 and
   the yaw given by its own position and the camera's (the camera's position
   when the frame began: the frame turns the characters before it moves the
   camera), whatever rotation an edit or a drag gave it since the frame
   before. *)
C25_BillboardsFaceCamera ==
    [][lastOp' = "update"
        => \A h \in Live2D(sv') :
              /\ sv'.xf[h].rot = FacingCamera(sv', h, sv.camPos)
              /\ TransformVector(sv'.xf[h].rot, Vec3(0, 1000, 0)) = Vec3(0, 1000, 0)]_vars

(* The gizmo specification of rebuilds: characters that are uploaded, become
   ready and are removed, edit mode entered and left, selections from the
   panel and by a press on a character, and the three tools *)

NextRebuild ==
    \/ nextCharId <= 2 /\ UploadCharacter("3d")
    \/ \E id \in CharIds : RemoveCharacter(id)
    \/ \E l \in sv.charLoads : CharReady(l)
    \/ EnterEditMode
    \/ LeaveEditMode
    \/ SelectScene
    \/ \E id \in CharIds : handleCharacterSelect(id)
    \/ \E m \in {"translate", "rotate", "scale"} : SetGizmoMode(m)
    \/ sv.isEditMode /\ \E hitChar \in CharIds : onMouseDown("none", hitChar, Zero3)
    \/ onMouseUp

SpecRebuild == Init /\ [][NextRebuild]_vars

---------------------------------------------------------------------------
(* SceneViewer: the skybox loader *)

(* The keys of SKYBOX_URLS *)
SkyboxPresets == {"sky_41_2k", "helipad", "studio"}

(* The asset the loader creates for the choice of s: its name and, for an
   uploaded map, the object URL it is read from *)
SkyboxAsset(s) ==
    IF s.skyboxId = "custom" THEN [name |-> "custom-skybox", url |-> s.customSkyboxUrl]
    ELSE [name |-> s.skyboxId, url |-> 0]

(* The skybox loading effect, run when the choice or the uploaded map
   changed: nothing for a custom choice without a map or for the preset the
   ref already holds, else a new asset is created and loaded *)
SkyboxEffect(s) ==
    IF s.skyboxId = "custom" /\ s.customSkyboxUrl = 0 THEN s
    ELSE IF s.skyboxId # "custom" /\ s.currentSkyboxAsset.name = s.skyboxId THEN s
    ELSE [s EXCEPT !.skyLoads = @ \cup {[asset |-> SkyboxAsset(s), n |-> s.skyLoadCount + 1]},
                   !.skyLoadCount = @ + 1]

(* handleEnvChange('skyboxId', id): the environment map selector of the
   editor panel *)
handleEnvChange(id) ==
    /\ Mounted /\ sv.isEditMode
    /\ id \in SkyboxPresets \cup {"custom"}
    /\ id # sv.skyboxId
    /\ sv.skyLoadCount < MaxSkyboxLoads
    /\ sv' = SkyboxEffect([sv EXCEPT !.skyboxId = id])
    /\ lastOp' = Op("handleEnvChange", id)
    /\ UNCHANGED <<appVars, dragEnt, budget, shown, saved, lastCall, pressed>>

(* handleCustomSkyboxUpload: a new object URL, the file name and the custom
   choice in one render *)
handleCustomSkyboxUpload ==
    /\ Mounted /\ sv.isEditMode
    /\ sv.skyLoadCount < MaxSkyboxLoads
    /\ sv' = SkyboxEffect([sv EXCEPT !.customSkyboxUrl = sv.skyLoadCount + 1, !.skyboxId = "custom"])
    /\ lastOp' = Op("handleCustomSkyboxUpload", 0)
    /\ UNCHANGED <<appVars, dragEnt, budget, shown, saved, lastCall, pressed>>

(* onAssetReady of the load l: the texture becomes the scene's skybox and
   the asset the ref's *)
onAssetReady(l) ==
    /\ Mounted
    /\ l \in sv.skyLoads
    /\ sv' = [sv EXCEPT !.skyLoads = @ \ {l}, !.skybox = l.asset, !.currentSkyboxAsset = l.asset]
    /\ lastOp' = Op("onAssetReady", l.n)
    /\ UNCHANGED <<appVars, dragEnt, budget, shown, saved, lastCall, pressed>>

(* The error event of the load l, which is logged *)
SkyboxLoadError(l) ==
    /\ Mounted
    /\ l \in sv.skyLoads
    /\ sv' = [sv EXCEPT !.skyLoads = @ \ {l}, !.skyFailed = TRUE]
    /\ lastOp' = Op("SkyboxLoadError", l.n)
    /\ UNCHANGED <<appVars, dragEnt, budget, shown, saved, lastCall, pressed>>

(* The skybox specification: the environment map is chosen and uploaded
   while earlier loads are still pending *)

NextSkybox ==
    \/ EnterEditMode
    \/ \E id \in SkyboxPresets \cup {"custom"} : handleEnvChange(id)
    \/ handleCustomSkyboxUpload
    \/ \E l \in sv.skyLoads : onAssetReady(l)
    \/ \E l \in sv.skyLoads : SkyboxLoadError(l)

SpecSkybox == Init /\ [][NextSkybox]_vars

---------------------------------------------------------------------------
(* Claims about orbit parameters and drags *)

(* A press that derives the orbit parameters *)
OrbitSeedStep == PressStep /\ sv'.isOrbiting

(* C26: when the orbit parameters are derived with the camera at zero
   distance from the target, the stored radius is a small positive epsilon
   and not 0, and the elevation is computed without a division by zero. *)
C26_ZeroDistanceRadius ==
    [][(OrbitSeedStep /\ sv.camPos = sv'.orbitParams.targetPivot)
        => /\ sv'.orbitParams.radius > 0
           /\ sv'.orbitParams.beta = 0]_vars

(* A pointer-move that reaches the gizmo-drag branch with a live target *)
DragStep ==
    /\ lastOp' = "onMouseMove"
    /\ sv.isEditMode /\ ~sv.isLocked /\ ~sv.isFreeLooking /\ ~sv.isOrbiting
    /\ sv.draggedAxis # "none" /\ sv.gizmoRoot.mode # "none"
    /\ TargetOf(sv) # NoEnt

(* The dragged axis in world space, in thousandths *)
DragAxisVec(s) == TransformVector(s.gizmoRoot.rot, UnitAxis(DirIx(s.draggedAxis)))

(* The value a drag of projected delta d (thousandths of a quarter unit)
   gives when it starts from the drag-start value *)
FromDragStart(s, d) ==
    LET i == DirIx(s.draggedAxis)
        start == s.dragStartValue
    IN  CASE ModeOf(s.draggedAxis) = "t" -> VAdd(start, [k \in 1 .. 3 |-> RDiv(DragAxisVec(s)[k] * d, 1000000)])
          [] ModeOf(s.draggedAxis) = "r" -> [start EXCEPT ![i] = start[i] + RDiv(20 * d, 4000)]
          [] ModeOf(s.draggedAxis) = "s" -> [start EXCEPT ![i] = RDiv(start[i] * (4000 + d), 4000)]

(* What the drag of s left on the target of s in the state t *)
DraggedValue(s, t) ==
    CASE ModeOf(s.draggedAxis) = "t" -> t.xf[TargetOf(s)].pos
      [] ModeOf(s.draggedAxis) = "r" -> t.xf[TargetOf(s)].rot
      [] ModeOf(s.draggedAxis) = "s" -> t.xf[TargetOf(s)].scl

(* What the entity reports for a value that was set on it *)
AsSet(s, v) == IF ModeOf(s.draggedAxis) = "r" THEN EulerReadBack(v) ELSE v

(* C27: each pointer-move of a gizmo drag computes the value from the
   drag-start value and the current projected delta, not from the previous
   move's result: translate = start + axis * delta, rotate = start angle +
   20 * delta, scale = start * (1 + delta), and a pointer back at the drag
   anchor (delta 0) restores the drag-start value exactly. *)
C27_DragFromStart ==
    [][DragStep =>
        \E off \in DragOffsets, miss \in BOOLEAN :
            /\ OnPlane(sv.dragPlane, off)
            /\ miss => off = Zero3
            /\ LET delta == Dot(DragAxisVec(sv), VSub(HitPoint(sv.dragPlane, off, miss), sv.dragStartPoint))
               IN  /\ DraggedValue(sv, sv') = AsSet(sv, FromDragStart(sv, delta))
                   /\ delta = 0 => DraggedValue(sv, sv') = sv.dragStartValue]_vars

(* A drag move has taken the target away from its drag-start value *)
C27_Witness ==
    /\ lastOp = "onMouseMove"
    /\ sv.isEditMode /\ sv.draggedAxis # "none" /\ sv.gizmoRoot.mode # "none"
    /\ TargetOf(sv) # NoEnt
    /\ DraggedValue(sv, sv) # sv.dragStartValue

(* The parts of the gizmo the ref holds carry the tags of the tool mode m *)
TaggedWith(s, m) == Axes(s.gizmoRoot.mode) = Axes(m)

(* C28: after the rebuild that a change of edit mode, tool mode, selection
   or load version triggers, a gizmo exists exactly when edit mode is on and
   a selection target kind is set, the gizmo before it has been destroyed
   (the root holds no other one), and every part of the new gizmo is tagged
   with the current tool mode. *)
C28_GizmoRebuilt ==
    Mounted =>
        /\ (sv.gizmoRoot.mode # "none") <=> (sv.isEditMode /\ sv.selectedTarget # "none")
        /\ sv.gizmos = IF sv.gizmoRoot.mode # "none" THEN 1 ELSE 0
        /\ sv.gizmoRoot.mode # "none" => TaggedWith(sv, sv.gizmoMode)

(* A change of tool rebuilt the gizmo of a selected character *)
C28_Witness ==
    /\ lastOp = "SetGizmoMode"
    /\ sv.selectedTarget = "character" /\ TargetOf(sv) # NoEnt
    /\ sv.gizmoRoot.mode = "scale" /\ sv.gizmos = 1

(* The local transform of the entity h as the numeric fields would show it *)
LocalTransform(s, h) == [position |-> s.xf[h].pos, rotation |-> s.xf[h].rot, scale |-> s.xf[h].scl]

(* The store of s with its rotation as the engine reports that rotation *)
StoreAsSet(s) == [s.transforms EXCEPT !.rotation = EulerReadBack(@)]

(* The steps after which the store is said to match: a selection change, a
   completed load, a numeric edit and a pointer-move of a gizmo drag *)
StoreSyncStep ==
    \/ <<sv.selectedTarget, sv.activeCharacterId>> # <<sv'.selectedTarget, sv'.activeCharacterId>>
    \/ lastOp' \in {"CharReady", "SceneReady"}
    \/ lastOp' = "handleTransformChange"
    \/ DragStep

(* C29: in edit mode, whenever the selection resolves to a live entity, the
   transform store shown in the numeric fields equals that entity's local
   transform (a rotation compared as the engine reports it): after a
   selection change, after a load completes, after a numeric edit and after
   each gizmo pointer-move. *)
C29_StoreMatchesEntity ==
    [][(StoreSyncStep /\ Mounted' /\ sv'.isEditMode /\ TargetOf(sv') # NoEnt)
        => StoreAsSet(sv') = LocalTransform(sv', TargetOf(sv'))]_vars

---------------------------------------------------------------------------
(* Claims about the skybox *)

(* Every skybox load that was started has completed *)
SkyboxLoadsDone(s) == s.skyLoads = {} /\ ~s.skyFailed

(* C30: once all skybox loads have completed, the skybox applied to the
   scene is the one named by the current skybox choice; a load superseded by
   a later choice never overwrites the later choice's skybox, also when the
   choice goes from preset A to B and back to A while B is still loading. *)
C30_ChosenSkyboxApplied ==
    (/\ Mounted
     /\ SkyboxLoadsDone(sv)
     /\ sv.skybox # NoSkybox
     /\ ~(sv.skyboxId = "custom" /\ sv.customSkyboxUrl = 0))
        => sv.skybox = SkyboxAsset(sv)

---------------------------------------------------------------------------
(* Claims about interleavings *)

(* The drag specification of late loads: two characters whose assets become
   ready at any time, a numeric edit, and a gizmo drag *)

NextDragLoad ==
    \/ nextCharId <= 2 /\ UploadCharacter("3d")
    \/ \E l \in sv.charLoads : CharReady(l)
    \/ EnterEditMode
    \/ handleTransformChange("position", "x", 8)
    \/ sv.isEditMode /\ \E hitAxis \in Axes(sv.gizmoRoot.mode) : onMouseDown(hitAxis, 0, Zero3)
    \/ PointerActs /\ \E off \in {Vec3(18, 0, 0), Vec3(0, 18, 0)} : onMouseMove(0, 0, off, FALSE)
    \/ onMouseUp

SpecDragLoad == Init /\ [][NextDragLoad]_vars

(* C31: during a gizmo drag only the entity that was the selection when the
   drag started is modified; a pointer-move after a character asset became
   ready and was selected does not overwrite that character's transform. *)
C31_DragKeepsTarget ==
    [][(lastOp' = "onMouseMove" /\ sv.draggedAxis # "none" /\ dragEnt # NoEnt)
        => \A h \in Live(sv) : (h.k # dragEnt.k \/ h.id # dragEnt.id) => sv'.xf[h] = sv.xf[h]]_vars

(* C32: the two halves of the selection are consistent in every reachable
   state: the selected target kind is character exactly when the active
   character id is set. *)
C32_SelectionHalvesAgree ==
    Mounted => ((sv.selectedTarget = "character") <=> (sv.activeCharacterId # 0))

(* The removal of the selected character has cleared the selection *)
C32_Witness ==
    /\ Mounted
    /\ lastOp = "RemoveCharacter"
    /\ sv.selectedTarget = "none" /\ sv.activeCharacterId = 0

---------------------------------------------------------------------------
(* Claims about the result view and scene uploads *)

(* C33: whenever the view mode is RESULT a generated image is present; no
   sequence of generate, reset, upload and view-mode operations hides the
   viewport with no result to show. *)
C33_ResultHasImage ==
    viewMode = "RESULT" => generationState.generatedImage # NoImage

(* C34: an image request that was in flight when a scene was uploaded does
   not install its image and does not switch the view to RESULT when it
   settles; the generated image stays cleared until a request made after the
   upload completes. *)
C34_UploadDiscardsPending ==
    [][\A g \in pendingGen :
          (g \notin pendingGen' /\ g.sceneSnapshot < nextUpload - 1)
              => /\ generationState'.generatedImage = NoImage
                 /\ viewMode' # "RESULT"]_vars

(* C35: isLoading is true in every state in which a scene upload is still
   being processed; with two overlapping uploads the completion of one does
   not clear the flag while the other is in progress. *)
C35_LoadingWhilePending ==
    pendingUnzip # {} => isLoading

(* C36: edit mode and pointer lock are never active together, whatever the
   interleaving of the pointer-lock request, its grant or loss, and the
   enter and leave edit-mode actions. *)
C36_EditExcludesLocked ==
    Mounted => ~(sv.isLocked /\ sv.isEditMode)

(* What a scene upload is to leave alone: the transforms of the loaded
   characters, the selection, the edit mode and the environment *)
BesideScene(e) == <<e.transforms, e.selection, e.isEditMode, e.environment>>

(* C37: a successful scene upload replaces only the scene: the local
   transforms of the loaded characters, the selection, the edit-mode flag
   and the environment settings are the same once the viewer shows the new
   scene as they were before the upload. *)
C37_UploadReplacesSceneOnly ==
    [][/\ (lastOp = "UploadSplatSpz" /\ lastOp' = "UnzipDone")
            => BesideScene(Editing(sv', characters')) = BesideScene(saved)
       /\ lastOp' = "UploadSplatPlain"
            => BesideScene(Editing(sv', characters')) = BesideScene(saved')]_vars

====
